---- MODULE Spec2Model ----
(***************************************************************************)
(* Model of the transaction dependency engine of run-db                    *)
(* (src/src/database.js): the persistent tx / deps / trust / ban tables,   *)
(* the in-memory graph of UnexecutedTx objects, the readiness propagator   *)
(* _checkExecutability and the public mutators of class Database.          *)
(*                                                                         *)
(* JavaScript objects are modelled as a heap: `nodes` maps an object       *)
(* identity to the fields of an UnexecutedTx, `unexecuted` maps a txid to  *)
(* the identity held by the Map.  A JavaScript Set is a sequence without   *)
(* duplicates, because Set iteration is in insertion order.                *)
(***************************************************************************)
EXTENDS Integers, Sequences, FiniteSets, TLC

\* Transaction ids; integers so that SQLite's index order can be modelled.
Txids == {1, 2, 3}

\* Number of UnexecutedTx objects that may be alive at the same time.
MaxNodes == 5
\* Number of state-changing public operations in one behaviour.
MaxSteps == 5
\* Depth allowed to the recursion of _checkExecutability.
MaxDepth == 12

NodeIds == 1..MaxNodes

\* Raw transactions are modelled by what Run.util.metadata makes of them: the
\* caller stores a transaction with storeParsedExecutableTransaction when its
\* hex parses as a Run transaction ("run") and with
\* storeParsedNonExecutableTransaction when it does not ("raw").

VARIABLES
  tx,            \* table tx: txid -> row
  deps,          \* table deps: set of <<up, down>>
  trustTbl,      \* table trust: txid -> value
  banTbl,        \* table ban: set of txid
  jig,           \* table jig: set of locations
  berry,         \* table berry: set of locations
  spends,        \* table spends: location -> spend_txid
  trustlist,     \* this.trustlist
  banlist,       \* this.banlist
  unexecuted,    \* this.unexecuted: txid -> object identity
  nodes,         \* heap of UnexecutedTx objects
  numQueuedForExecution,
  indexedStmtRaw, \* getTransactionIndexedStmt has been switched to raw mode
  fired,         \* callbacks invoked by the last operation, in order
  lastOp,        \* the last operation and its arguments
  pending,       \* txids announced by onReadyToExecute and not yet answered
  diverged,      \* the recursion of _checkExecutability exceeded MaxDepth
  steps

vars == <<tx, deps, trustTbl, banTbl, jig, berry, spends, trustlist, banlist,
          unexecuted, nodes, numQueuedForExecution, indexedStmtRaw, fired, lastOp,
          pending, diverged, steps>>

-----------------------------------------------------------------------------
\* Generic helpers

Range(q) == {q[i] : i \in 1..Len(q)}

\* Set.prototype.add / delete on an insertion-ordered Set
SetAdd(q, x) == IF x \in Range(q) THEN q ELSE Append(q, x)
SetDelete(q, x) == SelectSeq(q, LAMBDA y : y # x)

\* Finite maps (Map, SQL tables keyed by txid)
RECURSIVE Restrict(_, _)
Restrict(f, S) ==
  IF S = {} THEN <<>>
  ELSE LET x == CHOOSE y \in S : TRUE IN (x :> f[x]) @@ Restrict(f, S \ {x})

Put(f, k, v) == (k :> v) @@ f
Drop(f, k) == Restrict(f, (DOMAIN f) \ {k})

Min(S) == CHOOSE x \in S : \A y \in S : x <= y

RECURSIVE Sorted(_)
Sorted(S) == IF S = {} THEN <<>> ELSE <<Min(S)>> \o Sorted(S \ {Min(S)})

\* All sequences without repetition over S of length at most n
RECURSIVE Perms(_, _)
Perms(S, n) ==
  IF n = 0 \/ S = {} THEN {<<>>}
  ELSE {<<>>} \cup UNION {{<<x>> \o p : p \in Perms(S \ {x}, n - 1)} : x \in S}

-----------------------------------------------------------------------------
\* The machine state threaded through the operations

\* class UnexecutedTx: constructor
UnexecutedTx(txid, downloaded, hasCode) ==
  [txid |-> txid, downloaded |-> downloaded, hasCode |-> hasCode,
   queuedForExecution |-> FALSE, upstream |-> <<>>, downstream |-> <<>>]

\* const HEIGHT_MEMPOOL = -1
HEIGHT_MEMPOOL == -1
\* SQL NULL in an integer column
SqlNull == -2
\* const HEIGHT_UNKNOWN = null
HEIGHT_UNKNOWN == SqlNull

\* Math.round(Date.now() / 1000): a unix time, larger than any block height
Now == 1000

\* A row of table tx as written by addNewTransactionStmt.run(txid, time): the
\* statement's second parameter fills the column height and the column time
\* gets the literal null
NewRow ==
  [height |-> Now, time |-> SqlNull, bytes |-> "null", has_code |-> 0,
   executable |-> 0, executed |-> 0, indexed |-> 0]

\* Locations `<txid>_o<n>`: the txid prefix and the output number
Location(txid, n) == <<txid, n>>
\* location LIKE txid || '%'
StartsWith(loc, txid) == loc[1] = txid

Cur ==
  [tx |-> tx, deps |-> deps, trustTbl |-> trustTbl, banTbl |-> banTbl,
   jig |-> jig, berry |-> berry, spends |-> spends,
   trustlist |-> trustlist, banlist |-> banlist, unexecuted |-> unexecuted,
   nodes |-> nodes, num |-> numQueuedForExecution, indexedStmtRaw |-> indexedStmtRaw,
   fired |-> <<>>, deleted |-> {}, threw |-> FALSE, oom |-> FALSE, diverged |-> FALSE,
   open |-> 0, flips |-> <<>>]

\* What an observer called back in the middle of an operation can see
View(s) ==
  [tx |-> s.tx, deps |-> s.deps, trustlist |-> s.trustlist, banlist |-> s.banlist,
   unexecuted |-> s.unexecuted, nodes |-> s.nodes, num |-> s.num]

\* Invocation of one of the callback slots (onReadyToExecute, onAddTransaction, ...)
Fire(s, type, txid) ==
  [s EXCEPT !.fired = Append(s.fired, [type |-> type, txid |-> txid, at |-> View(s),
                                       inside |-> s.open > 0])]

\* new UnexecutedTx(...): the object gets the first free identity
FreeIds(s) == NodeIds \ DOMAIN s.nodes
Alloc(s) == Min(FreeIds(s))

\* truthiness of tx.hasCode (null, true or false)
Truthy(hasCode) == hasCode = "true"

\* UPDATE tx SET ... WHERE txid = ?
HasRow(s, txid) == txid \in DOMAIN s.tx

\* The lookup that finds no record
hasTransaction_Never(s, txid) == FALSE

hasTransaction(s, txid) == HasRow(s, txid)

-----------------------------------------------------------------------------
\* Readiness

\* The expression of _checkExecutability that computes queuedForExecution
Ready(s, n) ==
  LET t == s.nodes[n] IN
    /\ t.downloaded
    /\ (~Truthy(t.hasCode) \/ t.txid \in s.trustlist)
    /\ t.txid \notin s.banlist
    /\ ~(\E i \in 1..Len(t.upstream) : ~s.nodes[t.upstream[i]].queuedForExecution)

\* How often the flag of the object n has changed in the call so far
Flips(s, n) == IF n \in DOMAIN s.flips THEN s.flips[n] ELSE 0

\* The largest number of changes of the flag of one object
MostFlips(s) == IF DOMAIN s.flips = {} THEN 0
                ELSE CHOOSE k \in {s.flips[n] : n \in DOMAIN s.flips} :
                       \A m \in DOMAIN s.flips : s.flips[m] <= k

RECURSIVE _checkExecutability(_, _, _, _)
RECURSIVE CheckEach(_, _, _, _)

\* The propagator that descends also when the flag has not changed
_checkExecutability_Always(s, n, force, depth) ==
  IF depth = 0 THEN [s EXCEPT !.diverged = TRUE]
  ELSE
    LET t == s.nodes[n]
        queuedForExecution == IF force # "undefined" THEN force = "true" ELSE Ready(s, n)
        s1 == [s EXCEPT !.nodes[n].queuedForExecution = queuedForExecution]
    IN CheckEach(s1, t.downstream, 1, depth - 1)

\* _checkExecutability(tx, forceQueuedForExecution); force is "undefined",
\* TRUE or FALSE.
_checkExecutability(s, n, force, depth) ==
  IF depth = 0 THEN [s EXCEPT !.diverged = TRUE]
  ELSE
    LET t == s.nodes[n]
        queuedForExecution == IF force # "undefined" THEN force = "true" ELSE Ready(s, n)
    IN IF queuedForExecution = t.queuedForExecution THEN s
       ELSE
         LET s1 == [s EXCEPT !.num = IF queuedForExecution THEN s.num + 1 ELSE s.num - 1,
                             !.nodes[n].queuedForExecution = queuedForExecution,
                             !.flips = Put(s.flips, n, Flips(s, n) + 1)]
             s2 == IF t.upstream = <<>> /\ queuedForExecution
                   THEN Fire(s1, "onReadyToExecute", t.txid) ELSE s1
         IN CheckEach(s2, t.downstream, 1, depth - 1)

\* for (const downtx of tx.downstream) this._checkExecutability(downtx)
CheckEach(s, ds, i, depth) ==
  IF i > Len(ds) THEN s
  ELSE CheckEach(_checkExecutability(s, ds[i], "undefined", depth), ds, i + 1, depth)

checkExecutability(s, n) == _checkExecutability(s, n, "undefined", MaxDepth)

-----------------------------------------------------------------------------
\* addNewTransaction

addNewTransaction(s, txid) ==
  IF hasTransaction(s, txid) THEN s
  ELSE
    LET s1 == [s EXCEPT !.tx = Put(s.tx, txid, NewRow)]
        s2 == Fire(s1, "onAddTransaction", txid)
    IN IF txid \in DOMAIN s2.unexecuted THEN s2
       ELSE IF FreeIds(s2) = {} THEN [s2 EXCEPT !.oom = TRUE]
       ELSE LET n == Alloc(s2) IN
            [s2 EXCEPT !.nodes = Put(s2.nodes, n, UnexecutedTx(txid, FALSE, "null")),
                       !.unexecuted = Put(s2.unexecuted, txid, n)]

-----------------------------------------------------------------------------
\* Exceptions and store transactions

\* A TypeError raised by a statement; nothing in the class catches it
Throw(s) == [s EXCEPT !.threw = TRUE]

\* The transaction that keeps the writes of an f that throws
transaction_NoRollback(s0, r) == [r EXCEPT !.open = s0.open]

\* this.db.transaction(f)() starts a store transaction, or a savepoint inside
\* an open one; open counts the transactions that are open
begin(s) == [s EXCEPT !.open = s.open + 1]

\* this.transaction(f): better-sqlite3 commits when f returns and rolls the
\* tables back when f throws.  s0 is the state in which the transaction was
\* opened, r the state in which f ended.
transaction(s0, r) ==
  IF r.threw
  THEN [r EXCEPT !.tx = s0.tx, !.deps = s0.deps, !.trustTbl = s0.trustTbl, !.banTbl = s0.banTbl,
                 !.jig = s0.jig, !.berry = s0.berry, !.spends = s0.spends,
                 !.open = s0.open]
  ELSE [r EXCEPT !.open = s0.open]

\* setSpendStmt: INSERT OR REPLACE INTO spends (location, spend_txid)
RECURSIVE setSpends(_, _, _, _)
setSpends(s, inputs, txid, i) ==
  IF i > Len(inputs) THEN s
  ELSE setSpends([s EXCEPT !.spends = Put(s.spends, inputs[i], txid)], inputs, txid, i + 1)

\* setUnspentStmt: INSERT OR IGNORE INTO spends (location, spend_txid) VALUES (?, null)
RECURSIVE setUnspents(_, _, _)
setUnspents(s, outputs, i) ==
  IF i > Len(outputs) THEN s
  ELSE setUnspents(IF outputs[i] \in DOMAIN s.spends THEN s
                   ELSE [s EXCEPT !.spends = Put(s.spends, outputs[i], SqlNull)],
                   outputs, i + 1)

\* deleteJigStatesStmt, deleteBerryStatesStmt: DELETE ... WHERE location LIKE ? || '%'
deleteStates(s, txid) ==
  [s EXCEPT !.jig = Restrict(s.jig, {l \in DOMAIN s.jig : ~StartsWith(l, txid)}),
            !.berry = {l \in s.berry : ~StartsWith(l, txid)}]

\* deleteSpendsStmt, then unspendOutputsStmt
deleteSpends(s, txid) ==
  LET kept == Restrict(s.spends, {l \in DOMAIN s.spends : ~StartsWith(l, txid)})
  IN [s EXCEPT !.spends =
        Restrict([l \in DOMAIN kept |-> IF kept[l] = txid THEN SqlNull ELSE kept[l]],
                 DOMAIN kept)]

\* Rows of table tx
SetRow(s, txid, row) == IF HasRow(s, txid) THEN [s EXCEPT !.tx[txid] = row] ELSE s
Indexed(s, txid) == HasRow(s, txid) /\ s.tx[txid].indexed = 1

\* this.getTransactionIndexedStmt.get(deptxid).indexed: better-sqlite3's
\* Statement#raw(true) is a lasting toggle of the statement, so once
\* unindexTransaction has used the statement in raw mode, get() returns an
\* array and its property .indexed is undefined
getIndexed(s, txid) == IF s.indexedStmtRaw THEN FALSE ELSE Indexed(s, txid)

\* for (const downtx of tx.downstream) downtx.upstream.delete(tx)
RECURSIVE DetachEach(_, _, _, _)
DetachEach(s, n, ds, i) ==
  IF i > Len(ds) THEN s
  ELSE DetachEach([s EXCEPT !.nodes[ds[i]].upstream = SetDelete(s.nodes[ds[i]].upstream, n)],
                  n, ds, i + 1)

DetachDownstream(s, n) == DetachEach(s, n, s.nodes[n].downstream, 1)

\* The link that is recorded only at the upstream end
Link_DownstreamOnly(s, up, down) ==
  [s EXCEPT !.nodes[up].downstream = SetAdd(s.nodes[up].downstream, down)]

\* deptx.downstream.add(tx); tx.upstream.add(deptx)
Link(s, up, down) ==
  LET s1 == [s EXCEPT !.nodes[up].downstream = SetAdd(s.nodes[up].downstream, down)]
  IN [s1 EXCEPT !.nodes[down].upstream = SetAdd(s1.nodes[down].upstream, up)]

\* if (downtx.queuedForExecution && !downtx.upstream.size) onReadyToExecute(downtx.txid)
\* The loop without the test of downtx.queuedForExecution
RECURSIVE NotifyEach_Unflagged(_, _, _)
NotifyEach_Unflagged(s, ds, i) ==
  IF i > Len(ds) THEN s
  ELSE LET d == s.nodes[ds[i]]
           s1 == IF d.upstream = <<>>
                 THEN Fire(s, "onReadyToExecute", d.txid) ELSE s
       IN NotifyEach_Unflagged(s1, ds, i + 1)

\* The loop that announces nothing
NotifyEach_Silent(s, ds, i) == s

RECURSIVE NotifyEach(_, _, _)
NotifyEach(s, ds, i) ==
  IF i > Len(ds) THEN s
  ELSE LET d == s.nodes[ds[i]]
           s1 == IF d.queuedForExecution /\ d.upstream = <<>>
                 THEN Fire(s, "onReadyToExecute", d.txid) ELSE s
       IN NotifyEach(s1, ds, i + 1)

-----------------------------------------------------------------------------
\* setTransactionExecutionFailed

\* getTransactionHex + Run.util.metadata inside try/catch: does the stored
\* transaction still parse as a Run transaction
StillExecutable(s, txid) == HasRow(s, txid) /\ s.tx[txid].bytes = "run"

RECURSIVE setTransactionExecutionFailed(_, _)
RECURSIVE FailEach(_, _, _)

setTransactionExecutionFailed(s, txid) ==
  IF txid \notin DOMAIN s.unexecuted THEN s
  ELSE
    LET n == s.unexecuted[txid]
        t == s.nodes[n]
        s1 == IF HasRow(s, txid)
              THEN SetRow(begin(s), txid,
                          [s.tx[txid] EXCEPT !.executable = 0, !.executed = 1, !.indexed = 0])
              ELSE begin(s)
        s2 == DetachDownstream(s1, n)
        s3 == [s2 EXCEPT !.unexecuted = Drop(s2.unexecuted, txid),
                         !.num = IF t.queuedForExecution THEN s2.num - 1 ELSE s2.num,
                         !.nodes[n].queuedForExecution = FALSE]
    IN transaction(s, IF StillExecutable(s3, txid)
                      THEN FailEach(s3, t.downstream, 1)
                      ELSE NotifyEach(s3, t.downstream, 1))

\* The failure that does not reach the downstream transactions
FailEach_None(s, ds, i) == s

\* for (const downtx of tx.downstream) this.setTransactionExecutionFailed(downtx.txid)
FailEach(s, ds, i) ==
  IF i > Len(ds) THEN s
  ELSE FailEach(setTransactionExecutionFailed(s, s.nodes[ds[i]].txid), ds, i + 1)

-----------------------------------------------------------------------------
\* setTransactionHeight / setTransactionTime / unconfirmTransaction /
\* getTransactionsAboveHeight

\* The statement without the condition on the stored height
setTransactionHeight_Always(s, txid, height) ==
  IF HasRow(s, txid) THEN SetRow(s, txid, [s.tx[txid] EXCEPT !.height = height]) ELSE s

\* setTransactionHeightStmt:
\* UPDATE tx SET height = ? WHERE txid = ? AND (height IS NULL OR height = -1)
setTransactionHeight(s, txid, height) ==
  IF HasRow(s, txid) /\ s.tx[txid].height \in {SqlNull, HEIGHT_MEMPOOL}
  THEN SetRow(s, txid, [s.tx[txid] EXCEPT !.height = height])
  ELSE s

\* setTransactionTimeStmt: UPDATE tx SET time = ? WHERE txid = ?
setTransactionTime(s, txid, time) ==
  IF HasRow(s, txid) THEN SetRow(s, txid, [s.tx[txid] EXCEPT !.time = time]) ELSE s

\* unconfirmTransactionStmt: UPDATE tx SET height = -1 WHERE txid = ?
unconfirmTransaction(s, txid) ==
  IF HasRow(s, txid) THEN SetRow(s, txid, [s.tx[txid] EXCEPT !.height = HEIGHT_MEMPOOL]) ELSE s

\* getTransactionsAboveHeightStmt: SELECT txid FROM tx WHERE height > ?
\* (a comparison with NULL selects nothing)
getTransactionsAboveHeight(s, height) ==
  {t \in DOMAIN s.tx : s.tx[t].height # SqlNull /\ s.tx[t].height > height}

-----------------------------------------------------------------------------
\* storeParsedNonExecutableTransaction / storeParsedExecutableTransaction

storeParsedNonExecutableTransaction(s, txid, hex, inputs, outputs) ==
  LET s0 == IF HasRow(s, txid)
            THEN SetRow(begin(s), txid, [s.tx[txid] EXCEPT !.bytes = hex, !.executable = 0])
            ELSE begin(s)
      s1 == setUnspents(setSpends(s0, inputs, txid, 1), outputs, 1)
  IN IF txid \notin DOMAIN s1.unexecuted THEN transaction(s, Throw(s1))
     ELSE
       LET n == s1.unexecuted[txid]
           t == s1.nodes[n]
           s2 == [s1 EXCEPT !.nodes[n].downloaded = TRUE, !.unexecuted = Drop(s1.unexecuted, txid)]
           s3 == DetachDownstream(s2, n)
       IN transaction(s, CheckEach(s3, t.downstream, 1, MaxDepth))

\* The loop over deps of storeParsedExecutableTransaction, from the i-th dep
RECURSIVE ParsedDeps(_, _, _, _)
ParsedDeps(s, n, ds, i) ==
  IF s.oom THEN s
  ELSE IF i > Len(ds) THEN checkExecutability(s, n)
  ELSE
    LET txid == s.nodes[n].txid
        deptxid == ds[i]
        s1 == addNewTransaction(s, deptxid)
        s2 == [s1 EXCEPT !.deps = s1.deps \cup {<<deptxid, txid>>}]
    IN IF s1.oom THEN s1
       ELSE IF deptxid \in DOMAIN s2.unexecuted
       THEN ParsedDeps(Link(s2, s2.unexecuted[deptxid], n), n, ds, i + 1)
       ELSE IF ~getIndexed(s2, deptxid)
       THEN setTransactionExecutionFailed(s2, txid)
       ELSE ParsedDeps(s2, n, ds, i + 1)

storeParsedExecutableTransaction(s, txid, hex, hasCode, ds, inputs, outputs) ==
  LET s0 == IF HasRow(s, txid)
            THEN SetRow(begin(s), txid, [s.tx[txid] EXCEPT !.bytes = hex, !.executable = 1,
                                                           !.has_code = IF hasCode THEN 1 ELSE 0])
            ELSE begin(s)
      s1 == setUnspents(setSpends(s0, inputs, txid, 1), outputs, 1)
  IN IF txid \notin DOMAIN s1.unexecuted THEN transaction(s, Throw(s1))
     ELSE
       LET n == s1.unexecuted[txid]
           s2 == [s1 EXCEPT !.nodes[n].hasCode = IF hasCode THEN "true" ELSE "false",
                            !.nodes[n].downloaded = TRUE]
       IN transaction(s, ParsedDeps(s2, n, ds, 1))

-----------------------------------------------------------------------------
\* storeExecutedTransaction

\* The result of replaying txid, which its bytes determine: the cache holds
\* the state of one jig (jig://<txid>_o1) and of one berry (berry://<txid>_o2...)
\* Its jig is of class A, or of class B if txid is 3; it has the lock L
\* unless txid is 2, and a scripthash unless txid is 3: classes, locks and
\* scripthashes hold pairs <<location, value>>
Result(txid) ==
  [jigs |-> <<Location(txid, 1)>>, berries |-> {Location(txid, 2)},
   classes |-> <<<<Location(txid, 1), IF txid = 3 THEN "B" ELSE "A">>>>,
   locks |-> IF txid = 2 THEN <<>> ELSE <<<<Location(txid, 1), "L">>>>,
   scripthashes |-> IF txid = 3 THEN <<>>
                    ELSE <<<<Location(txid, 1), IF txid = 1 THEN "H" ELSE "G">>>>]

\* setJigStateStmt: INSERT OR IGNORE INTO jig (location, state, class, lock,
\* scripthash) VALUES (?, ?, null, null, null), for each jig of the cache
RECURSIVE setJigStates(_, _, _)
setJigStates(tbl, locations, i) ==
  IF i > Len(locations) THEN tbl
  ELSE setJigStates(IF locations[i] \in DOMAIN tbl THEN tbl
                    ELSE Put(tbl, locations[i],
                             [class |-> "null", lock |-> "null", scripthash |-> "null"]),
                    locations, i + 1)

\* setJigClassStmt, setJigLockStmt, setJigScripthashStmt:
\* UPDATE jig SET <column> = ? WHERE location = ?, for each pair
RECURSIVE setJigColumn(_, _, _, _)
setJigColumn(tbl, column, pairs, i) ==
  IF i > Len(pairs) THEN tbl
  ELSE setJigColumn(IF pairs[i][1] \in DOMAIN tbl
                    THEN [tbl EXCEPT ![pairs[i][1]][column] = pairs[i][2]]
                    ELSE tbl,
                    column, pairs, i + 1)

\* The writes of storeExecutedTransaction to the jig table
setJigs(tbl, result) ==
  setJigColumn(setJigColumn(setJigColumn(setJigStates(tbl, result.jigs, 1),
                                         "class", result.classes, 1),
                            "lock", result.locks, 1),
               "scripthash", result.scripthashes, 1)

storeExecutedTransaction(s, txid) ==
  IF txid \notin DOMAIN s.unexecuted THEN s
  ELSE
    LET n == s.unexecuted[txid]
        t == s.nodes[n]
        s0 == IF HasRow(s, txid)
              THEN SetRow(begin(s), txid, [s.tx[txid] EXCEPT !.executed = 1, !.indexed = 1])
              ELSE begin(s)
        s1 == [s0 EXCEPT !.jig = setJigs(s0.jig, Result(txid)),
                         !.berry = s0.berry \cup Result(txid).berries]
        s2 == DetachDownstream(s1, n)
        s3 == [s2 EXCEPT !.unexecuted = Drop(s2.unexecuted, txid),
                         !.num = IF t.queuedForExecution THEN s2.num - 1 ELSE s2.num,
                         !.nodes[n].queuedForExecution = FALSE]
    IN transaction(s, NotifyEach(s3, t.downstream, 1))

-----------------------------------------------------------------------------
\* unspent

\* column = ? of SQL: true only of a value that is not NULL and equal
SqlEq(v, w) == v # "null" /\ w # "null" /\ v = w

\* getAllUnspentSql: spends JOIN jig ON spends.location = jig.location
\* WHERE spends.spend_txid IS NULL
getAllUnspent(s) ==
  {l \in DOMAIN s.spends \cap DOMAIN s.jig : s.spends[l] = SqlNull}

getAllUnspentByClassOrigin(s, origin) ==
  {l \in getAllUnspent(s) : SqlEq(s.jig[l].class, origin)}

getAllUnspentByLockOrigin(s, origin) ==
  {l \in getAllUnspent(s) : SqlEq(s.jig[l].lock, origin)}

getAllUnspentByScripthash(s, scripthash) ==
  {l \in getAllUnspent(s) : SqlEq(s.jig[l].scripthash, scripthash)}

\* The query that does not test the lock
getAllUnspentByClassOriginAndLockOrigin_AnyLock(s, clsOrigin, lockOrigin) ==
  getAllUnspentByClassOrigin(s, clsOrigin)

getAllUnspentByClassOriginAndLockOrigin(s, clsOrigin, lockOrigin) ==
  {l \in getAllUnspent(s) : SqlEq(s.jig[l].class, clsOrigin) /\ SqlEq(s.jig[l].lock, lockOrigin)}

getAllUnspentByClassOriginAndScripthash(s, clsOrigin, scripthash) ==
  {l \in getAllUnspent(s) :
     SqlEq(s.jig[l].class, clsOrigin) /\ SqlEq(s.jig[l].scripthash, scripthash)}

getAllUnspentByLockOriginAndScripthash(s, lockOrigin, scripthash) ==
  {l \in getAllUnspent(s) :
     SqlEq(s.jig[l].lock, lockOrigin) /\ SqlEq(s.jig[l].scripthash, scripthash)}

getAllUnspentByClassOriginAndLockOriginAndScripthash(s, clsOrigin, lockOrigin, scripthash) ==
  {l \in getAllUnspent(s) :
     /\ SqlEq(s.jig[l].class, clsOrigin) /\ SqlEq(s.jig[l].lock, lockOrigin)
     /\ SqlEq(s.jig[l].scripthash, scripthash)}

\* getNumUnspentStmt: SELECT COUNT(*) of the same join
getNumUnspent(s) ==
  Cardinality({<<l, m>> \in (DOMAIN s.spends) \X (DOMAIN s.jig) :
                 l = m /\ s.spends[l] = SqlNull})

-----------------------------------------------------------------------------
\* deleteTransaction

\* getDownstreamStmt: SELECT down FROM deps WHERE up = ?, answered from the
\* UNIQUE(up, down) index, hence in ascending order of down
getDownstream(s, txid) == Sorted({e[2] : e \in {d \in s.deps : d[1] = txid}})

RECURSIVE deleteTransaction(_, _)
RECURSIVE DeleteEach(_, _, _)

deleteTransaction(s, txid) ==
  IF txid \in s.deleted THEN s
  ELSE
    LET queued == txid \in DOMAIN s.unexecuted /\ s.nodes[s.unexecuted[txid]].queuedForExecution
        s0 == deleteSpends(deleteStates(begin(s), txid), txid)
        s1 == [s0 EXCEPT !.deleted = s.deleted \cup {txid},
                        !.tx = Drop(s.tx, txid),
                        !.deps = {e \in s.deps : e[2] # txid},
                        !.num = IF queued THEN s.num - 1 ELSE s.num,
                        !.unexecuted = Drop(s.unexecuted, txid)]
        s2 == Fire(s1, "onDeleteTransaction", txid)
    IN transaction(s, DeleteEach(s2, getDownstream(s2, txid), 1))

\* The deletion that stops at the transaction itself
DeleteEach_None(s, ds, i) == s

\* downtxids.forEach(downtxid => this.deleteTransaction(downtxid, deleted))
DeleteEach(s, ds, i) ==
  IF i > Len(ds) THEN s ELSE DeleteEach(deleteTransaction(s, ds[i]), ds, i + 1)

-----------------------------------------------------------------------------
\* unindexTransaction

\* getUpstreamUnexecutedStmt
getUpstreamUnexecuted(s, txid) ==
  Sorted({u \in Txids : /\ <<u, txid>> \in s.deps
                        /\ HasRow(s, u)
                        /\ s.tx[u].executable = 1 /\ s.tx[u].executed = 0})

\* for (const uptxid of upstreamUnexecuted) { ... } of unindexTransaction
RECURSIVE LinkUpstream(_, _, _, _)
LinkUpstream(s, n, us, i) ==
  IF i > Len(us) THEN s
  ELSE IF us[i] \notin DOMAIN s.unexecuted THEN LinkUpstream(s, n, us, i + 1)
  ELSE LinkUpstream(Link(s, s.unexecuted[us[i]], n), n, us, i + 1)

RECURSIVE unindexTransaction(_, _)
RECURSIVE UnindexEach(_, _, _)

unindexTransaction(s, txid) ==
  IF s.threw \/ s.oom THEN s
  ELSE IF txid \in DOMAIN s.unexecuted
  THEN _checkExecutability(s, s.unexecuted[txid], "false", MaxDepth)
  ELSE IF ~HasRow(s, txid) THEN transaction(s, Throw([s EXCEPT !.indexedStmtRaw = TRUE]))
  ELSE IF s.tx[txid].indexed # 1 THEN [s EXCEPT !.indexedStmtRaw = TRUE]
  ELSE IF FreeIds(s) = {} THEN [s EXCEPT !.oom = TRUE]
  ELSE
    LET s0 == [begin(s) EXCEPT !.indexedStmtRaw = TRUE]
        s1 == deleteStates(SetRow(s0, txid, [s.tx[txid] EXCEPT !.executed = 0, !.indexed = 0]),
                           txid)
        downloaded == s1.tx[txid].bytes # "null"
        hasCode == IF downloaded
                   THEN (IF s1.tx[txid].has_code # 0 THEN "true" ELSE "false")
                   ELSE "null"
        n == Alloc(s1)
        s2 == [s1 EXCEPT !.nodes = Put(s1.nodes, n, UnexecutedTx(txid, downloaded, hasCode))]
        s3 == LinkUpstream(s2, n, getUpstreamUnexecuted(s2, txid), 1)
        s4 == [s3 EXCEPT !.unexecuted = Put(s3.unexecuted, txid, n)]
        s5 == UnindexEach(s4, getDownstream(s4, txid), 1)
    IN IF s5.threw \/ s5.oom THEN transaction(s, s5)
       ELSE transaction(s, Fire(s5, "onUnindexTransaction", txid))

\* downtxids.forEach(downtxid => this.unindexTransaction(downtxid))
UnindexEach(s, ds, i) ==
  IF i > Len(ds) \/ s.threw \/ s.oom THEN s
  ELSE UnindexEach(unindexTransaction(s, ds[i]), ds, i + 1)

-----------------------------------------------------------------------------
\* addDep / addMissingDeps

addDep(s, n, deptxid) ==
  LET txid == s.nodes[n].txid
      s1 == addNewTransaction(s, deptxid)
      s2 == [s1 EXCEPT !.deps = s1.deps \cup {<<deptxid, txid>>}]
  IN IF s1.oom THEN s1
     ELSE IF deptxid \in DOMAIN s2.unexecuted
     THEN Link(s2, s2.unexecuted[deptxid], n)
     ELSE IF ~getIndexed(s2, deptxid)
     THEN setTransactionExecutionFailed(s2, txid)
     ELSE s2

RECURSIVE AddDepEach(_, _, _, _)
AddDepEach(s, n, ds, i) ==
  IF i > Len(ds) \/ s.oom THEN s ELSE AddDepEach(addDep(s, n, ds[i]), n, ds, i + 1)

\* The call that adds the record of a dep without looking for the node
addMissingDeps_Unchecked(s, txid, deptxids) ==
  IF deptxids = <<>> THEN s ELSE addNewTransaction(s, deptxids[1])

addMissingDeps(s, txid, deptxids) ==
  IF txid \notin DOMAIN s.unexecuted THEN s
  ELSE
    LET n == s.unexecuted[txid]
        s1 == AddDepEach(begin(s), n, deptxids, 1)
    IN IF s1.oom THEN s1 ELSE transaction(s, checkExecutability(s1, n))

-----------------------------------------------------------------------------
\* trust / untrust / ban / unban

\* The breadth-first walk of trust(): queue and the result hold objects and
\* txids in the order of discovery
RECURSIVE TrustWalk(_, _, _, _)
TrustWalk(s, queue, visited, trusted) ==
  IF queue = <<>> THEN trusted
  ELSE
    LET n == Head(queue)
        t == s.nodes[n]
    IN IF n \in visited THEN TrustWalk(s, Tail(queue), visited, trusted)
       ELSE TrustWalk(s, Tail(queue) \o t.upstream, visited \cup {n},
                      IF Truthy(t.hasCode) /\ t.txid \notin s.trustlist
                      THEN Append(trusted, t.txid) ELSE trusted)

\* trusted.forEach(txid => this.setTrustedStmt.run(txid, 1))
RECURSIVE SetTrusted(_, _, _)
SetTrusted(tbl, trusted, i) ==
  IF i > Len(trusted) THEN tbl ELSE SetTrusted(Put(tbl, trusted[i], 1), trusted, i + 1)

RECURSIVE TrustCheckEach(_, _, _)
TrustCheckEach(s, trusted, i) ==
  IF i > Len(trusted) THEN s
  ELSE LET s1 == IF trusted[i] \in DOMAIN s.unexecuted
                 THEN checkExecutability(s, s.unexecuted[trusted[i]]) ELSE s
       IN TrustCheckEach(s1, trusted, i + 1)

RECURSIVE FireEach(_, _, _, _)
FireEach(s, type, txids, i) ==
  IF i > Len(txids) THEN s ELSE FireEach(Fire(s, type, txids[i]), type, txids, i + 1)

trust(s, txid) ==
  IF txid \in s.trustlist THEN s
  ELSE
    LET trusted == IF txid \in DOMAIN s.unexecuted
                   THEN TrustWalk(s, s.nodes[s.unexecuted[txid]].upstream, {}, <<txid>>)
                   ELSE <<txid>>
        s1 == [s EXCEPT !.trustTbl = SetTrusted(s.trustTbl, trusted, 1),
                        !.trustlist = s.trustlist \cup Range(trusted)]
        s2 == TrustCheckEach(s1, trusted, 1)
    IN FireEach(s2, "onTrustTransaction", trusted, 1)

untrust(s, txid) ==
  IF txid \notin s.trustlist THEN s
  ELSE
    LET s1 == unindexTransaction(begin(s), txid)
        s2 == transaction(s, [s1 EXCEPT !.trustTbl = Put(s1.trustTbl, txid, 0)])
    IN IF s1.threw \/ s1.oom THEN transaction(s, s1)
       ELSE Fire([s2 EXCEPT !.trustlist = s2.trustlist \ {txid}], "onUntrustTransaction", txid)

ban(s, txid) ==
  IF txid \in s.banlist THEN s
  ELSE
    LET s1 == unindexTransaction(begin(s), txid)
        s2 == transaction(s, [s1 EXCEPT !.banTbl = s1.banTbl \cup {txid}])
    IN IF s1.threw \/ s1.oom THEN transaction(s, s1)
       ELSE Fire([s2 EXCEPT !.banlist = s2.banlist \cup {txid}], "onBanTransaction", txid)

\* The unban that leaves the ban in place
unban_KeepBan(s, txid) == Fire(s, "onUnbanTransaction", txid)

\* The unban that does not re-evaluate the node
unban_Unchecked(s, txid) ==
  IF txid \notin s.banlist THEN s
  ELSE Fire([s EXCEPT !.banTbl = s.banTbl \ {txid}, !.banlist = s.banlist \ {txid}],
            "onUnbanTransaction", txid)

unban(s, txid) ==
  IF txid \notin s.banlist THEN s
  ELSE
    LET s1 == [s EXCEPT !.banTbl = s.banTbl \ {txid}, !.banlist = s.banlist \ {txid}]
        s2 == IF txid \in DOMAIN s1.unexecuted
              THEN checkExecutability(s1, s1.unexecuted[txid]) ELSE s1
    IN Fire(s2, "onUnbanTransaction", txid)

-----------------------------------------------------------------------------
\* The specification

\* DEFAULT_TRUSTLIST of config.js, restricted to the txids of the model
DEFAULT_TRUSTLIST == {1}

\* Largest number of deps passed to one call
MaxDeps == 1
DepLists == Perms(Txids, MaxDeps)

\* The outputs a transaction creates and the inputs it spends: it has one
\* output, and it spends the output of each transaction it declares as a dep
Outputs(txid) == <<Location(txid, 1)>>
Inputs(ds) == [i \in 1..Len(ds) |-> Location(ds[i], 1)]

\* Objects that can still be reached from this.unexecuted; the others are
\* garbage and cannot influence any later operation.
RECURSIVE Reach(_, _)
Reach(ns, R) ==
  LET R1 == R \cup UNION {Range(ns[n].upstream) \cup Range(ns[n].downstream) : n \in R}
  IN IF R1 = R THEN R ELSE Reach(ns, R1)

Live(s) == Reach(s.nodes, {s.unexecuted[t] : t \in DOMAIN s.unexecuted})

-----------------------------------------------------------------------------
\* close / open: a restart of the store on the same Database object

\* this.db.close(); this.db = null: the tables stay on disk, and the fields
\* trustlist, banlist, unexecuted and numQueuedForExecution of the object
\* are not touched
close(s) == s

\* for (const txid of DEFAULT_TRUSTLIST) trustIfMissingStmt.run(txid):
\* INSERT OR IGNORE INTO trust (txid, value) VALUES (?, 1)
trustIfMissing(tbl) ==
  [t \in DOMAIN tbl \cup DEFAULT_TRUSTLIST |-> IF t \in DOMAIN tbl THEN tbl[t] ELSE 1]

\* getTrustlistStmt.raw(true).all().forEach(row => this.trustlist.add(row[0]))
_loadTrustlist(s) ==
  [s EXCEPT !.trustlist = s.trustlist \cup {t \in DOMAIN s.trustTbl : s.trustTbl[t] = 1}]

\* getBanlistStmt.raw(true).all().forEach(row => this.banlist.add(row[0]))
_loadBanlist(s) == [s EXCEPT !.banlist = s.banlist \cup s.banTbl]

\* getUnexecutedStmt: the txids selected, in the order of the txids
getUnexecuted(s) ==
  Sorted({t \in DOMAIN s.tx : \/ s.tx[t].executable = 1 /\ s.tx[t].executed = 0
                              \/ s.tx[t].bytes = "null"})

\* getUnexecutedDepsStmt: the deps rows joined with the record of down
getUnexecutedDeps(s) ==
  {e \in s.deps : /\ HasRow(s, e[2])
                  /\ s.tx[e[2]].executable = 1 /\ s.tx[e[2]].executed = 0}

\* The first loop of _loadUnexecuted: a new object for every row selected,
\* which takes the place of the object the map held for the txid
RECURSIVE LoadEach(_, _, _)
LoadEach(s, rows, i) ==
  IF i > Len(rows) THEN s
  ELSE IF FreeIds(s) = {} THEN [s EXCEPT !.oom = TRUE]
  ELSE
    LET t == rows[i]
        n == Alloc(s)
        tx_ == UnexecutedTx(t, s.tx[t].bytes # "null",
                            IF s.tx[t].has_code = 1 THEN "true" ELSE "false")
    IN LoadEach([s EXCEPT !.nodes = Put(s.nodes, n, tx_),
                          !.unexecuted = Put(s.unexecuted, t, n)], rows, i + 1)

\* The second loop of _loadUnexecuted: rows whose up is not in the map are
\* skipped
RECURSIVE LoadLinks(_, _)
LoadLinks(s, E) ==
  IF E = {} THEN s
  ELSE
    LET e == CHOOSE x \in E : \A y \in E : x[1] < y[1] \/ (x[1] = y[1] /\ x[2] <= y[2])
    IN IF e[1] \notin DOMAIN s.unexecuted THEN LoadLinks(s, E \ {e})
       ELSE LoadLinks(Link(s, s.unexecuted[e[1]], s.unexecuted[e[2]]), E \ {e})

\* for (const tx of this.unexecuted.values()) this._checkExecutability(tx)
RECURSIVE LoadCheckEach(_, _, _)
LoadCheckEach(s, txids, i) ==
  IF i > Len(txids) THEN s
  ELSE LoadCheckEach(checkExecutability(s, s.unexecuted[txids[i]]), txids, i + 1)

\* _loadUnexecuted.  The objects that the new ones replace in the map are
\* garbage from then on unless an object that stays in the map refers to
\* them, so their identities are free for the new ones.
_loadUnexecuted(s) ==
  LET rows == getUnexecuted(s)
      kept == [s EXCEPT !.unexecuted = Restrict(s.unexecuted,
                                                (DOMAIN s.unexecuted) \ Range(rows))]
      s0 == [s EXCEPT !.nodes = Restrict(s.nodes, Live(kept))]
      s1 == LoadEach(s0, rows, 1)
      s2 == LoadLinks(s1, getUnexecutedDeps(s1))
  IN IF s1.oom THEN s1
     ELSE LoadCheckEach(s2, Sorted(DOMAIN s2.unexecuted), 1)

\* open(): the statements are prepared anew, the default trust seed is
\* inserted where it is missing, and the three loaders run
open(s) ==
  LET s1 == [s EXCEPT !.trustTbl = trustIfMissing(s.trustTbl), !.indexedStmtRaw = FALSE]
  IN _loadUnexecuted(_loadBanlist(_loadTrustlist(s1)))

\* The node this.unexecuted holds for t
NodeOf(t) == nodes[unexecuted[t]]

\* t is in the map, flagged and without upstream
RootReady(um, ns, t) ==
  /\ t \in DOMAIN um
  /\ ns[um[t]].queuedForExecution
  /\ ns[um[t]].upstream = <<>>

Op(name, txid, hex, hasCode, ds) ==
  [op |-> name, txid |-> txid, hex |-> hex, hasCode |-> hasCode, deps |-> ds,
   height |-> SqlNull]

\* A call op(txid, height)
OpAt(name, txid, height) ==
  [op |-> name, txid |-> txid, hex |-> "null", hasCode |-> FALSE, deps |-> <<>>,
   height |-> height]

\* No call has returned since the callbacks of the previous one were handled
Idle == [call |-> Op("none", 0, "null", FALSE, <<>>), threw |-> FALSE, flips |-> 0]

Init ==
  /\ tx = <<>>
  /\ deps = {}
  /\ trustTbl = Restrict([t \in Txids |-> 1], DEFAULT_TRUSTLIST)
  /\ banTbl = {}
  /\ jig = <<>>
  /\ berry = {}
  /\ spends = <<>>
  /\ trustlist = DEFAULT_TRUSTLIST
  /\ banlist = {}
  /\ unexecuted = <<>>
  /\ nodes = <<>>
  /\ numQueuedForExecution = 0
  /\ indexedStmtRaw = FALSE
  /\ fired = <<>>
  /\ lastOp = Idle
  /\ pending = {}
  /\ diverged = FALSE
  /\ steps = 0

\* Did the call change anything that a later call can read
Changed(r) ==
  \/ <<r.tx, r.deps, r.trustTbl, r.banTbl, r.trustlist, r.banlist>>
       # <<tx, deps, trustTbl, banTbl, trustlist, banlist>>
  \/ <<r.jig, r.berry, r.spends>> # <<jig, berry, spends>>
  \/ <<r.unexecuted, Restrict(r.nodes, Live(r)), r.num, r.indexedStmtRaw>>
       # <<unexecuted, nodes, numQueuedForExecution, indexedStmtRaw>>

\* The executor's answers to onReadyToExecute
Answers == {"storeExecutedTransaction", "setTransactionExecutionFailed", "addMissingDeps"}

\* The announcements still to be answered after a call that returned r
Pending(r, call) ==
  (pending \ (IF call.op \in Answers THEN {call.txid} ELSE {}))
    \cup {r.fired[i].txid : i \in {j \in 1..Len(r.fired) : r.fired[j].type = "onReadyToExecute"}}

\* The state left by a call that returned r.  MaxSteps bounds the number of
\* calls that change the state.
Commit(r, call) ==
  /\ ~r.oom
  /\ jig' = r.jig
  /\ berry' = r.berry
  /\ spends' = r.spends
  /\ pending' = Pending(r, call)
  /\ tx' = r.tx
  /\ deps' = r.deps
  /\ trustTbl' = r.trustTbl
  /\ banTbl' = r.banTbl
  /\ trustlist' = r.trustlist
  /\ banlist' = r.banlist
  /\ unexecuted' = r.unexecuted
  /\ nodes' = Restrict(r.nodes, Live(r))
  /\ numQueuedForExecution' = r.num
  /\ indexedStmtRaw' = r.indexedStmtRaw
  /\ fired' = r.fired
  /\ lastOp' = [call |-> call, threw |-> r.threw, flips |-> MostFlips(r)]
  /\ diverged' = (diverged \/ r.diverged)
  /\ steps' = IF Changed(r) THEN steps + 1 ELSE steps

AddNewTransaction ==
  \E t \in Txids :
    /\ lastOp = Idle /\ steps < MaxSteps
    /\ Commit(addNewTransaction(Cur, t), Op("addNewTransaction", t, "null", FALSE, <<>>))

StoreParsedNonExecutableTransaction ==
  \E t \in Txids :
    /\ lastOp = Idle /\ steps < MaxSteps
    /\ Commit(storeParsedNonExecutableTransaction(Cur, t, "raw", <<>>, Outputs(t)),
              Op("storeParsedNonExecutableTransaction", t, "raw", FALSE, <<>>))

StoreParsedExecutableTransaction ==
  \E t \in Txids, hasCode \in BOOLEAN, ds \in DepLists :
    /\ lastOp = Idle /\ steps < MaxSteps
    /\ Commit(storeParsedExecutableTransaction(Cur, t, "run", hasCode, ds, Inputs(ds), Outputs(t)),
              Op("storeParsedExecutableTransaction", t, "run", hasCode, ds))

StoreExecutedTransaction ==
  \E t \in Txids :
    /\ lastOp = Idle /\ steps < MaxSteps
    /\ Commit(storeExecutedTransaction(Cur, t), Op("storeExecutedTransaction", t, "null", FALSE, <<>>))

SetTransactionExecutionFailed ==
  \E t \in Txids :
    /\ lastOp = Idle /\ steps < MaxSteps
    /\ Commit(setTransactionExecutionFailed(Cur, t),
              Op("setTransactionExecutionFailed", t, "null", FALSE, <<>>))

DeleteTransaction ==
  \E t \in Txids :
    /\ lastOp = Idle /\ steps < MaxSteps
    /\ Commit(deleteTransaction(Cur, t), Op("deleteTransaction", t, "null", FALSE, <<>>))

UnindexTransaction ==
  \E t \in Txids :
    /\ lastOp = Idle /\ steps < MaxSteps
    /\ Commit(transaction(Cur, unindexTransaction(Cur, t)),
              Op("unindexTransaction", t, "null", FALSE, <<>>))

AddMissingDeps ==
  \E t \in Txids, ds \in DepLists :
    /\ lastOp = Idle /\ steps < MaxSteps
    /\ Commit(addMissingDeps(Cur, t, ds), Op("addMissingDeps", t, "null", FALSE, ds))

Trust ==
  \E t \in Txids :
    /\ lastOp = Idle /\ steps < MaxSteps
    /\ Commit(trust(Cur, t), Op("trust", t, "null", FALSE, <<>>))

Untrust ==
  \E t \in Txids :
    /\ lastOp = Idle /\ steps < MaxSteps
    /\ Commit(untrust(Cur, t), Op("untrust", t, "null", FALSE, <<>>))

Ban ==
  \E t \in Txids :
    /\ lastOp = Idle /\ steps < MaxSteps
    /\ Commit(ban(Cur, t), Op("ban", t, "null", FALSE, <<>>))

Unban ==
  \E t \in Txids :
    /\ lastOp = Idle /\ steps < MaxSteps
    /\ Commit(unban(Cur, t), Op("unban", t, "null", FALSE, <<>>))

\* The caller has handled the callbacks of the last call and is about to
\* make the next one
Return ==
  /\ lastOp # Idle
  /\ lastOp' = Idle
  /\ fired' = <<>>
  /\ UNCHANGED <<tx, deps, trustTbl, banTbl, jig, berry, spends, trustlist, banlist,
                 unexecuted, nodes, numQueuedForExecution, indexedStmtRaw, pending,
                 diverged, steps>>

Next ==
  \/ Return
  \/ AddNewTransaction
  \/ StoreParsedNonExecutableTransaction
  \/ StoreParsedExecutableTransaction
  \/ StoreExecutedTransaction
  \/ SetTransactionExecutionFailed
  \/ DeleteTransaction
  \/ UnindexTransaction
  \/ AddMissingDeps
  \/ Trust
  \/ Untrust
  \/ Ban
  \/ Unban

Spec == Init /\ [][Next]_vars

-----------------------------------------------------------------------------
\* A second specification: the calls an indexer makes for two Run
\* transactions of the chain, where transaction 1 deploys code and spends an
\* output of transaction 2.  The crawler adds a transaction it has seen and
\* deletes it on a reorg, the downloader has it parsed once it is in the
\* map and not yet downloaded, the executor answers onReadyToExecute, and
\* the administrator edits the trust and ban lists.

Pair == {1, 2}
ChainHasCode(t) == t = 1
ChainDeps(t) == IF t = 1 THEN <<2>> ELSE <<>>

\* Number of calls in one behaviour of the indexer
MaxDriverSteps == 8

Announced(t) == RootReady(unexecuted, nodes, t)

DriverAddNew ==
  \E t \in Pair :
    /\ lastOp = Idle /\ steps < MaxDriverSteps
    /\ t \notin DOMAIN tx
    /\ Commit(addNewTransaction(Cur, t), Op("addNewTransaction", t, "null", FALSE, <<>>))

DriverParse ==
  \E t \in Pair :
    /\ lastOp = Idle /\ steps < MaxDriverSteps
    /\ t \in DOMAIN unexecuted /\ ~NodeOf(t).downloaded
    /\ Commit(storeParsedExecutableTransaction(Cur, t, "run", ChainHasCode(t), ChainDeps(t),
                                               Inputs(ChainDeps(t)), Outputs(t)),
              Op("storeParsedExecutableTransaction", t, "run", ChainHasCode(t), ChainDeps(t)))

DriverExecuted ==
  \E t \in Pair :
    /\ lastOp = Idle /\ steps < MaxDriverSteps
    /\ Announced(t)
    /\ Commit(storeExecutedTransaction(Cur, t), Op("storeExecutedTransaction", t, "null", FALSE, <<>>))

DriverMissingDeps ==
  \E t \in Pair : \E d \in Pair \ {t} :
    /\ lastOp = Idle /\ steps < MaxDriverSteps
    /\ Announced(t)
    /\ Commit(addMissingDeps(Cur, t, <<d>>), Op("addMissingDeps", t, "null", FALSE, <<d>>))

DriverDelete ==
  \E t \in Pair :
    /\ lastOp = Idle /\ steps < MaxDriverSteps
    /\ t \in DOMAIN tx
    /\ Commit(deleteTransaction(Cur, t), Op("deleteTransaction", t, "null", FALSE, <<>>))

DriverUnindex ==
  \E t \in Pair :
    /\ lastOp = Idle /\ steps < MaxDriverSteps
    /\ t \in DOMAIN tx /\ tx[t].indexed = 1
    /\ Commit(transaction(Cur, unindexTransaction(Cur, t)),
              Op("unindexTransaction", t, "null", FALSE, <<>>))

DriverTrust ==
  \E t \in Pair :
    /\ lastOp = Idle /\ steps < MaxDriverSteps
    /\ t \notin trustlist
    /\ Commit(trust(Cur, t), Op("trust", t, "null", FALSE, <<>>))

DriverUntrust ==
  \E t \in Pair :
    /\ lastOp = Idle /\ steps < MaxDriverSteps
    /\ t \in trustlist /\ t \in DOMAIN tx
    /\ Commit(untrust(Cur, t), Op("untrust", t, "null", FALSE, <<>>))

DriverBan ==
  \E t \in Pair :
    /\ lastOp = Idle /\ steps < MaxDriverSteps
    /\ t \notin banlist /\ t \in DOMAIN tx
    /\ Commit(ban(Cur, t), Op("ban", t, "null", FALSE, <<>>))

DriverUnban ==
  \E t \in Pair :
    /\ lastOp = Idle /\ steps < MaxDriverSteps
    /\ t \in banlist
    /\ Commit(unban(Cur, t), Op("unban", t, "null", FALSE, <<>>))

DriverNext ==
  \/ Return
  \/ DriverAddNew
  \/ DriverParse
  \/ DriverExecuted
  \/ DriverMissingDeps
  \/ DriverDelete
  \/ DriverUnindex
  \/ DriverTrust
  \/ DriverUntrust
  \/ DriverBan
  \/ DriverUnban

SpecDriver == Init /\ [][DriverNext]_vars

-----------------------------------------------------------------------------
\* The indexer of SpecDriver with callbacks that can throw.  No method of
\* the class catches what a callback throws, so the exception ends the call
\* at the callback: the in-memory state stays as the callback saw it, and a
\* callback invoked inside this.transaction(...) has the tables rolled back
\* to the state s0 in which the call started.

\* The state a call leaves that would have returned r if its i-th callback,
\* invoked inside the store transaction, had not thrown
abort(s0, r, i) ==
  LET at == r.fired[i].at
  IN [r EXCEPT !.tx = s0.tx, !.deps = s0.deps, !.trustTbl = s0.trustTbl,
               !.banTbl = s0.banTbl, !.jig = s0.jig, !.berry = s0.berry,
               !.spends = s0.spends, !.open = s0.open,
               !.trustlist = at.trustlist, !.banlist = at.banlist,
               !.unexecuted = at.unexecuted, !.nodes = at.nodes, !.num = at.num,
               !.fired = SubSeq(r.fired, 1, i), !.threw = TRUE]

\* The callbacks of r that were invoked inside the store transaction
Inside(r) == {i \in 1..Len(r.fired) : r.fired[i].inside}

DriverParseAborted ==
  \E t \in Pair :
    /\ lastOp = Idle /\ steps < MaxDriverSteps
    /\ t \in DOMAIN unexecuted /\ ~NodeOf(t).downloaded
    /\ LET r == storeParsedExecutableTransaction(Cur, t, "run", ChainHasCode(t), ChainDeps(t),
                                                 Inputs(ChainDeps(t)), Outputs(t))
       IN \E i \in Inside(r) :
            Commit(abort(Cur, r, i),
                   Op("storeParsedExecutableTransaction", t, "run", ChainHasCode(t), ChainDeps(t)))

DriverExecutedAborted ==
  \E t \in Pair :
    /\ lastOp = Idle /\ steps < MaxDriverSteps
    /\ Announced(t)
    /\ LET r == storeExecutedTransaction(Cur, t)
       IN \E i \in Inside(r) :
            Commit(abort(Cur, r, i), Op("storeExecutedTransaction", t, "null", FALSE, <<>>))

DriverFailed ==
  \E t \in Pair :
    /\ lastOp = Idle /\ steps < MaxDriverSteps
    /\ Announced(t)
    /\ Commit(setTransactionExecutionFailed(Cur, t),
              Op("setTransactionExecutionFailed", t, "null", FALSE, <<>>))

AbortNext ==
  \/ DriverNext
  \/ DriverParseAborted
  \/ DriverExecutedAborted
  \/ DriverFailed

SpecAbort == Init /\ [][AbortNext]_vars

-----------------------------------------------------------------------------
\* A third specification: the calls an indexer makes for a line of three Run
\* transactions, where transaction 1 deploys code and spends an output of
\* transaction 2, which spends an output of transaction 3.  The executor
\* works asynchronously: it answers each announcement once, with
\* storeExecutedTransaction or setTransactionExecutionFailed, at any later
\* time, also when the transaction was unindexed or deleted and added again
\* in between.

LineHasCode(t) == t = 1
LineDeps(t) == IF t < 3 THEN <<t + 1>> ELSE <<>>

\* Number of calls in one behaviour of the indexer of the line
MaxLineSteps == 9

LineAddNew ==
  \E t \in Txids :
    /\ lastOp = Idle /\ steps < MaxLineSteps
    /\ t \notin DOMAIN tx
    /\ Commit(addNewTransaction(Cur, t), Op("addNewTransaction", t, "null", FALSE, <<>>))

LineParse ==
  \E t \in Txids :
    /\ lastOp = Idle /\ steps < MaxLineSteps
    /\ t \in DOMAIN unexecuted /\ ~NodeOf(t).downloaded
    /\ Commit(storeParsedExecutableTransaction(Cur, t, "run", LineHasCode(t), LineDeps(t),
                                               Inputs(LineDeps(t)), Outputs(t)),
              Op("storeParsedExecutableTransaction", t, "run", LineHasCode(t), LineDeps(t)))

LineExecuted ==
  \E t \in pending :
    /\ lastOp = Idle /\ steps < MaxLineSteps
    /\ Commit(storeExecutedTransaction(Cur, t), Op("storeExecutedTransaction", t, "null", FALSE, <<>>))

LineFailed ==
  \E t \in pending :
    /\ lastOp = Idle /\ steps < MaxLineSteps
    /\ Commit(setTransactionExecutionFailed(Cur, t),
              Op("setTransactionExecutionFailed", t, "null", FALSE, <<>>))

LineMissingDeps ==
  \E t \in pending : \E d \in Txids \ {t} :
    /\ lastOp = Idle /\ steps < MaxLineSteps
    /\ Commit(addMissingDeps(Cur, t, <<d>>), Op("addMissingDeps", t, "null", FALSE, <<d>>))

LineDelete ==
  \E t \in Txids :
    /\ lastOp = Idle /\ steps < MaxLineSteps
    /\ t \in DOMAIN tx
    /\ Commit(deleteTransaction(Cur, t), Op("deleteTransaction", t, "null", FALSE, <<>>))

LineUnindex ==
  \E t \in Txids :
    /\ lastOp = Idle /\ steps < MaxLineSteps
    /\ t \in DOMAIN tx /\ tx[t].indexed = 1
    /\ Commit(transaction(Cur, unindexTransaction(Cur, t)),
              Op("unindexTransaction", t, "null", FALSE, <<>>))

LineNext ==
  \/ Return
  \/ LineAddNew
  \/ LineParse
  \/ LineExecuted
  \/ LineFailed
  \/ LineMissingDeps
  \/ LineDelete
  \/ LineUnindex

SpecLine == Init /\ [][LineNext]_vars

-----------------------------------------------------------------------------
\* A specification with fairness, for the line of three transactions.  In
\* its first MaxLiveSteps calls the indexer also unindexes, reports missing
\* deps, and edits the trust and ban lists.  After them only the downloader
\* and the executor go on: the downloader has every transaction of the map
\* parsed that is not yet downloaded, and the executor answers every
\* onReadyToExecute(t) with storeExecutedTransaction(t).  Downloader and
\* executor do not stop while they have work, which is weak fairness of
\* their steps.

\* Number of state-changing calls before only downloader and executor go on
MaxLiveSteps == 5

LiveAddNew ==
  \E t \in Txids :
    /\ lastOp = Idle /\ steps < MaxLiveSteps
    /\ t \notin DOMAIN tx
    /\ Commit(addNewTransaction(Cur, t), Op("addNewTransaction", t, "null", FALSE, <<>>))

LiveParse ==
  \E t \in Txids :
    /\ lastOp = Idle
    /\ t \in DOMAIN unexecuted /\ ~NodeOf(t).downloaded
    /\ Commit(storeParsedExecutableTransaction(Cur, t, "run", LineHasCode(t), LineDeps(t),
                                               Inputs(LineDeps(t)), Outputs(t)),
              Op("storeParsedExecutableTransaction", t, "run", LineHasCode(t), LineDeps(t)))

LiveExecuted ==
  \E t \in pending :
    /\ lastOp = Idle
    /\ Commit(storeExecutedTransaction(Cur, t), Op("storeExecutedTransaction", t, "null", FALSE, <<>>))

LiveMissingDeps ==
  \E t \in pending : \E d \in Range(LineDeps(t)) :
    /\ lastOp = Idle /\ steps < MaxLiveSteps
    /\ Commit(addMissingDeps(Cur, t, <<d>>), Op("addMissingDeps", t, "null", FALSE, <<d>>))

LiveUnindex ==
  \E t \in Txids :
    /\ lastOp = Idle /\ steps < MaxLiveSteps
    /\ t \in DOMAIN tx
    /\ Commit(transaction(Cur, unindexTransaction(Cur, t)),
              Op("unindexTransaction", t, "null", FALSE, <<>>))

LiveTrust ==
  \E t \in Txids :
    /\ lastOp = Idle /\ steps < MaxLiveSteps
    /\ t \notin trustlist
    /\ Commit(trust(Cur, t), Op("trust", t, "null", FALSE, <<>>))

LiveBan ==
  \E t \in Txids :
    /\ lastOp = Idle /\ steps < MaxLiveSteps
    /\ t \notin banlist /\ t \in DOMAIN tx
    /\ Commit(ban(Cur, t), Op("ban", t, "null", FALSE, <<>>))

LiveUnban ==
  \E t \in Txids :
    /\ lastOp = Idle /\ steps < MaxLiveSteps
    /\ t \in banlist
    /\ Commit(unban(Cur, t), Op("unban", t, "null", FALSE, <<>>))

LiveNext ==
  \/ Return
  \/ LiveAddNew
  \/ LiveParse
  \/ LiveExecuted
  \/ LiveMissingDeps
  \/ LiveUnindex
  \/ LiveTrust
  \/ LiveBan
  \/ LiveUnban

\* The steps of LiveParse and of LiveExecuted, told by the call that lastOp
\* records: a call is possible as soon as its guard holds
DownloaderParses ==
  /\ lastOp = Idle
  /\ lastOp' \in {[call |-> Op("storeParsedExecutableTransaction", t, "run",
                                LineHasCode(t), LineDeps(t)),
                     threw |-> b, flips |-> k] :
                      t \in {u \in DOMAIN unexecuted : ~NodeOf(u).downloaded}, b \in BOOLEAN,
                      k \in 0..MaxDepth}

ExecutorAnswers ==
  /\ lastOp = Idle
  /\ lastOp' \in {[call |-> Op("storeExecutedTransaction", t, "null", FALSE, <<>>),
                     threw |-> b, flips |-> k] : t \in pending, b \in BOOLEAN,
                                                    k \in 0..MaxDepth}

SpecLive ==
  /\ Init
  /\ [][LiveNext]_vars
  /\ WF_vars(Return)
  /\ WF_lastOp(DownloaderParses)
  /\ WF_lastOp(ExecutorAnswers)

-----------------------------------------------------------------------------
\* A fourth specification: the calls of a crawler that follows the chain
\* tip.  It adds the transactions it sees, records the height of the block
\* that confirms a transaction, returns a transaction to the mempool when
\* its block is reorganised away, and deletes transactions.

\* The block heights of the crawl (the tip is at 100), all less than Now
Heights == 98..100

\* Number of calls in one behaviour of the crawler
MaxCrawlSteps == 6

CrawlAddNew ==
  \E t \in Txids :
    /\ lastOp = Idle /\ steps < MaxCrawlSteps
    /\ Commit(addNewTransaction(Cur, t), Op("addNewTransaction", t, "null", FALSE, <<>>))

CrawlSetHeight ==
  \E t \in Txids : \E h \in Heights :
    /\ lastOp = Idle /\ steps < MaxCrawlSteps
    /\ Commit(setTransactionHeight(Cur, t, h), OpAt("setTransactionHeight", t, h))

CrawlSetTime ==
  \E t \in Txids :
    /\ lastOp = Idle /\ steps < MaxCrawlSteps
    /\ Commit(setTransactionTime(Cur, t, Now), Op("setTransactionTime", t, "null", FALSE, <<>>))

CrawlUnconfirm ==
  \E t \in Txids :
    /\ lastOp = Idle /\ steps < MaxCrawlSteps
    /\ Commit(unconfirmTransaction(Cur, t), Op("unconfirmTransaction", t, "null", FALSE, <<>>))

CrawlDelete ==
  \E t \in Txids :
    /\ lastOp = Idle /\ steps < MaxCrawlSteps
    /\ Commit(deleteTransaction(Cur, t), Op("deleteTransaction", t, "null", FALSE, <<>>))

CrawlNext ==
  \/ Return
  \/ CrawlAddNew
  \/ CrawlSetHeight
  \/ CrawlSetTime
  \/ CrawlUnconfirm
  \/ CrawlDelete

SpecCrawl == Init /\ [][CrawlNext]_vars

-----------------------------------------------------------------------------
\* Properties

\* The callbacks of the last call that are onReadyToExecute
IsReady(e) == e.type = "onReadyToExecute"
ReadyFired == {i \in 1..Len(fired) : IsReady(fired[i])}

\* Number of onReadyToExecute(t) callbacks in the sequence of callbacks f
NumReady(f, t) == Cardinality({i \in 1..Len(f) : IsReady(f[i]) /\ f[i].txid = t})

\* A public operation has just returned
Called == lastOp = Idle /\ lastOp' # Idle

\* The public operation that has just returned is op(t)
CalledOp(op, t) == Called /\ lastOp'.call.op = op /\ lastOp'.call.txid = t

\* In the state v, transaction d is indexed or declared non-executable
Settled(v, d) ==
  /\ d \in DOMAIN v.tx
  /\ \/ v.tx[d].indexed = 1
     \/ v.tx[d].bytes # "null" /\ v.tx[d].executable = 0

\* C1: whenever onReadyToExecute(t) fires, every d with a deps row
\* (up = d, down = t) is indexed or declared non-executable.
C1_SchedulingSafety ==
  \A i \in ReadyFired :
    \A d \in Txids :
      <<d, fired[i].txid>> \in fired[i].at.deps => Settled(fired[i].at, d)

\* C2: after every public mutator, every node of the unexecuted map has
\* queuedForExecution = ready(n) under the current trust and ban sets.
C2_FlagIsReady ==
  \A t \in DOMAIN unexecuted :
    NodeOf(t).queuedForExecution = Ready(Cur, unexecuted[t])

\* C3: after every public mutator, numQueuedForExecution is the number of
\* nodes of the unexecuted map whose queuedForExecution flag is set.
C3_CounterIsFlagged ==
  numQueuedForExecution =
    Cardinality({t \in DOMAIN unexecuted : NodeOf(t).queuedForExecution})

\* In the state v, the record of t says that t was parsed with hasCode = true
ParsedWithCode(v, t) == t \in DOMAIN v.tx /\ v.tx[t].has_code = 1

\* C4: onReadyToExecute(t) never fires for a t parsed with hasCode = true
\* while t is not in the trust set.
C4_TrustPolicy ==
  \A i \in ReadyFired :
    ParsedWithCode(fired[i].at, fired[i].txid) => fired[i].txid \in fired[i].at.trustlist

\* C5: a banned txid has queuedForExecution = false if it is in the map, and
\* no onReadyToExecute(t) fires while t is banned.
C5_BanDominates ==
  /\ \A t \in banlist \cap DOMAIN unexecuted : ~NodeOf(t).queuedForExecution
  /\ \A i \in ReadyFired : fired[i].txid \notin fired[i].at.banlist

\* C6: each time a node of the map comes to be flagged with an empty
\* upstream set, from a state where it was not, onReadyToExecute(n.txid)
\* fires exactly once in that operation.
C6_ReadyRootOnce ==
  [][Called =>
      \A t \in Txids :
        (RootReady(unexecuted', nodes', t) /\ ~RootReady(unexecuted, nodes, t))
          => NumReady(fired', t) = 1]_vars

\* The objects of the heap ns that are flagged and have no upstream
FlaggedRoots(ns, ids) ==
  {y \in ids : ns[y].queuedForExecution /\ ns[y].upstream = <<>>}

C8_MissingDepsIndexed ==
  [][\A b \in Txids :
       (/\ CalledOp("addMissingDeps", b)
        /\ RootReady(unexecuted, nodes, b)
        /\ \A i \in 1..Len(lastOp'.call.deps) :
             /\ lastOp'.call.deps[i] \in DOMAIN tx
             /\ tx[lastOp'.call.deps[i]].indexed = 1)
       => /\ NumReady(fired', b) = 1
          /\ RootReady(unexecuted', nodes', b)]_vars

\* The objects reached from the objects R through upstream sets
RECURSIVE UpReach(_, _)
UpReach(ns, R) ==
  LET R1 == R \cup UNION {Range(ns[n].upstream) : n \in R}
  IN IF R1 = R THEN R ELSE UpReach(ns, R1)

\* The txids trust(t) adds besides t
TrustClosure(t) ==
  IF t \notin DOMAIN unexecuted THEN {}
  ELSE {nodes[m].txid : m \in {k \in UpReach(nodes, Range(NodeOf(t).upstream)) :
                                 nodes[k].hasCode = "true" /\ nodes[k].txid \notin trustlist}}

\* The txids the trust table marks trusted
TrustedRows(tbl) == {t \in DOMAIN tbl : tbl[t] = 1}

\* C9: trust(t), for t not trusted, makes the trust set, in memory and in the
\* trust table, the previous one plus t plus every untrusted hasCode node
\* reached from t through upstream sets, and afterwards every node of the
\* map has queuedForExecution = ready(n).
C9_TrustClosure ==
  [][\A t \in Txids \ trustlist :
       CalledOp("trust", t) =>
         /\ trustlist' = trustlist \cup {t} \cup TrustClosure(t)
         /\ TrustedRows(trustTbl') = TrustedRows(trustTbl) \cup {t} \cup TrustClosure(t)
         /\ \A u \in DOMAIN unexecuted' :
              nodes'[unexecuted'[u]].queuedForExecution = Ready(Cur', unexecuted'[u])]_vars

\* The objects reached from the objects R through downstream sets
RECURSIVE DownReach(_, _)
DownReach(ns, R) ==
  LET R1 == R \cup UNION {Range(ns[n].downstream) : n \in R}
  IN IF R1 = R THEN R ELSE DownReach(ns, R1)

\* The record of t says that its execution failed
FailedRow(rows, t) ==
  /\ t \in DOMAIN rows
  /\ rows[t].executable = 0 /\ rows[t].executed = 1 /\ rows[t].indexed = 0

RECURSIVE Cascade(_)
Cascade(R) ==
  LET R1 == R \cup UNION {{nodes[m].txid : m \in Range(NodeOf(t).downstream)} :
                            t \in {u \in R : StillExecutable(Cur, u)}}
      R2 == R1 \cap DOMAIN unexecuted
  IN IF R2 = R THEN R ELSE Cascade(R2)

-----------------------------------------------------------------------------
\* Non-executable predecessors

\* p was last stored by storeParsedNonExecutableTransaction
StoredNonExecutable(p) ==
  /\ p \in DOMAIN tx
  /\ tx[p].bytes = "raw" /\ tx[p].executable = 0 /\ tx[p].executed = 0
  /\ p \notin DOMAIN unexecuted

\* The trust and ban clauses of readiness hold for a
Allowed(a, hasCode) == (~hasCode \/ a \in trustlist) /\ a \notin banlist

\* a is flagged after the call and the call announced it
QueuedAndAnnounced(a) ==
  /\ a \in DOMAIN unexecuted' /\ nodes'[unexecuted'[a]].queuedForExecution
  /\ NumReady(fired', a) >= 1

\* a is parsed with the single dep p after p was stored non-executable
ParsedAfter(a, p) ==
  /\ CalledOp("storeParsedExecutableTransaction", a) /\ ~lastOp'.threw
  /\ lastOp'.call.deps = <<p>> /\ p # a
  /\ StoredNonExecutable(p)
  /\ a \in DOMAIN unexecuted /\ ~NodeOf(a).downloaded /\ NodeOf(a).upstream = <<>>
  /\ Allowed(a, lastOp'.call.hasCode)

\* p is stored non-executable after a was parsed with p as its only
\* unsatisfied dep
StoredAfter(a, p) ==
  /\ CalledOp("storeParsedNonExecutableTransaction", p) /\ ~lastOp'.threw
  /\ p \in DOMAIN unexecuted /\ a \in DOMAIN unexecuted /\ p # a
  /\ NodeOf(a).downloaded /\ NodeOf(a).upstream = <<unexecuted[p]>>
  /\ ~NodeOf(a).queuedForExecution
  /\ Allowed(a, Truthy(NodeOf(a).hasCode))

\* C11 (the predecessor is stored after a is parsed): a is flagged and
\* announced when storeParsedNonExecutableTransaction(p) returns.
C11_StoredAfter ==
  [][\A a \in Txids : \A p \in Txids : StoredAfter(a, p) => QueuedAndAnnounced(a)]_vars

\* C11: a non-executable predecessor p does not block a: a downloaded a
\* whose trust and ban clauses hold and whose only dep is p is flagged and
\* announced, whether p is stored by storeParsedNonExecutableTransaction
\* before or after storeParsedExecutableTransaction parses a.
C11_NonExecutablePredecessor ==
  [][\A a \in Txids : \A p \in Txids :
       (ParsedAfter(a, p) \/ StoredAfter(a, p)) => QueuedAndAnnounced(a)]_vars

-----------------------------------------------------------------------------
\* Permanently unindexable upstream

\* d is not in the unexecuted map and its record has indexed = 0
Unindexable(d) == d \notin DOMAIN unexecuted /\ d \in DOMAIN tx /\ tx[d].indexed = 0

\* The call op(t, ..., <<d>>) has just returned, t was in the map with a
\* record and d was unindexable
MetUnindexable(op, t, d) ==
  /\ CalledOp(op, t) /\ ~lastOp'.threw
  /\ lastOp'.call.deps = <<d>> /\ d # t
  /\ t \in DOMAIN unexecuted /\ t \in DOMAIN tx
  /\ Unindexable(d)

\* t ends the call failed, where after is the object graph the call left:
\* its record is failed, it is out of the map, its object is not flagged and
\* the counter does not count it
EndsFailed(t, after) ==
  /\ FailedRow(tx', t)
  /\ t \notin DOMAIN unexecuted'
  /\ ~after[unexecuted[t]].queuedForExecution
  /\ NodeOf(t).downstream = <<>> =>
       numQueuedForExecution' =
         numQueuedForExecution - (IF NodeOf(t).queuedForExecution THEN 1 ELSE 0)

\* C12 (parse path): storeParsedExecutableTransaction(t, ..., <<d>>) with an
\* unindexable d leaves t failed.
C12_ParseUnindexable ==
  [][\A t \in Txids : \A d \in Txids :
       MetUnindexable("storeParsedExecutableTransaction", t, d) =>
         EndsFailed(t, storeParsedExecutableTransaction(Cur, t, "run", lastOp'.call.hasCode,
                                                         <<d>>, Inputs(<<d>>), Outputs(t)).nodes)]_vars

\* C12: when storeParsedExecutableTransaction(t, ..., deps) or
\* addMissingDeps(t, deps) meets a dep that is not in the unexecuted map and
\* whose record has indexed = 0, t ends the call failed: record
\* executable = 0, executed = 1, indexed = 0, t out of the map, its
\* queuedForExecution flag false and t not counted in numQueuedForExecution.
C12_UnindexableUpstream ==
  [][\A t \in Txids : \A d \in Txids :
       /\ MetUnindexable("storeParsedExecutableTransaction", t, d) =>
            EndsFailed(t, storeParsedExecutableTransaction(Cur, t, "run", lastOp'.call.hasCode,
                                                            <<d>>, Inputs(<<d>>), Outputs(t)).nodes)
       /\ MetUnindexable("addMissingDeps", t, d) =>
            EndsFailed(t, addMissingDeps(Cur, t, <<d>>).nodes)]_vars

-----------------------------------------------------------------------------
\* Revocation

\* The txids reachable from R through the rows of the deps table E, downstream
RECURSIVE DepsReach(_, _)
DepsReach(E, R) ==
  LET R1 == R \cup {e[2] : e \in {f \in E : f[1] \in R}}
  IN IF R1 = R THEN R ELSE DepsReach(E, R1)

\* The operations that revoke the indexed state of a transaction
Revocations == {"unindexTransaction", "untrust", "ban"}

\* op(t) has just returned for an indexed t, and op did not return early
Revoked(op, t) ==
  /\ CalledOp(op, t) /\ ~lastOp'.threw
  /\ t \in DOMAIN tx /\ tx[t].indexed = 1
  /\ op = "untrust" => t \in trustlist
  /\ op = "ban" => t \notin banlist

\* After the call u is back in the state of a transaction to execute
Cleared(u) ==
  /\ u \in DOMAIN tx' /\ tx'[u].executed = 0 /\ tx'[u].indexed = 0
  /\ ~\E loc \in DOMAIN jig' \cup berry' : StartsWith(loc, u)
  /\ u \in DOMAIN unexecuted' /\ ~nodes'[unexecuted'[u]].queuedForExecution

\* C13: after unindexTransaction(t), called directly or through untrust(t)
\* or ban(t), on an indexed t, t and every indexed transaction reachable
\* from t through the downstream rows of deps have executed = 0 and
\* indexed = 0, no jig or berry row of their txid, and are in the
\* unexecuted map with queuedForExecution = false.
C13_RevocationClears ==
  [][\A op \in Revocations : \A t \in Txids :
       Revoked(op, t) =>
         \A u \in DepsReach(deps, {t}) :
           (u = t \/ (u \in DOMAIN tx /\ tx[u].indexed = 1)) => Cleared(u)]_vars

\* The callbacks of the last call include type(t)
Fired(type, t) == \E i \in 1..Len(fired) : fired[i].type = type /\ fired[i].txid = t

-----------------------------------------------------------------------------
\* Deletion

\* Number of callbacks type(t) in the sequence of callbacks f
NumFired(f, type, t) ==
  Cardinality({i \in 1..Len(f) : f[i].type = type /\ f[i].txid = t})

\* Nothing of u is left after the call
Gone(u) ==
  /\ u \notin DOMAIN tx'
  /\ ~\E loc \in DOMAIN jig' \cup berry' \cup DOMAIN spends' : StartsWith(loc, u)
  /\ ~\E loc \in DOMAIN spends' : spends'[loc] = u
  /\ ~\E e \in deps' : e[1] = u \/ e[2] = u
  /\ u \notin DOMAIN unexecuted'

\* C14: deleteTransaction(t) returns for any deps table, also a cyclic one,
\* and then, for t and every transaction reachable from t through the
\* downstream rows of deps, the tx record is gone, no jig, berry or spends
\* row has a location of that txid, no spends row names it as spend_txid, no
\* deps row has it as up or down, it is not in the unexecuted map, and
\* onDeleteTransaction was fired exactly once for it.
C14_DeleteTransaction ==
  [][\A t \in Txids :
       CalledOp("deleteTransaction", t) =>
         /\ ~lastOp'.threw /\ ~diverged'
         /\ \A u \in DepsReach(deps, {t}) :
              Gone(u) /\ NumFired(fired', "onDeleteTransaction", u) = 1]_vars

\* deleteTransaction has just deleted a transaction and, after it, a
\* transaction downstream of it
C14_Witness ==
  /\ lastOp.call.op = "deleteTransaction" /\ ~lastOp.threw
  /\ \E i \in 1..Len(fired) : \E j \in 1..Len(fired) :
       /\ fired[i].type = "onDeleteTransaction" /\ fired[i].txid = lastOp.call.txid
       /\ fired[j].type = "onDeleteTransaction" /\ fired[j].txid # lastOp.call.txid
       /\ i = 1
       /\ <<lastOp.call.txid, fired[j].txid>> \in fired[i].at.deps
       /\ i < j

-----------------------------------------------------------------------------
\* Heights

\* The heights a reorg rewinds to
Rewinds == 97..100

\* C15: when setTransactionHeight(t, h) gives a confirmed height to a
\* transaction that addNewTransaction created, getTransactionsAboveHeight(k)
\* contains t exactly if h > k; and a transaction that addNewTransaction has
\* just created, whose height is unknown, is in no
\* getTransactionsAboveHeight(k).
C15_AboveHeight ==
  [][\A t \in Txids : \A k \in Rewinds :
       /\ (CalledOp("setTransactionHeight", t) /\ t \in DOMAIN tx /\ tx[t] = NewRow) =>
            (t \in getTransactionsAboveHeight(Cur', k) <=> lastOp'.call.height > k)
       /\ (CalledOp("addNewTransaction", t) /\ t \notin DOMAIN tx) =>
            t \notin getTransactionsAboveHeight(Cur', k)]_vars

\* C16: addNewTransaction(t) for a txid without a record inserts a record
\* with time = the current time, height = UNKNOWN, no bytes and
\* executable = executed = indexed = 0, creates an unexecuted node that is
\* not downloaded, has hasCode unknown, is not flagged and has no edges, and
\* fires onAddTransaction(t) once.
C16_AddNewTransaction ==
  [][\A t \in Txids :
       (CalledOp("addNewTransaction", t) /\ t \notin DOMAIN tx) =>
         /\ t \in DOMAIN tx'
         /\ tx'[t].time = Now /\ tx'[t].height = HEIGHT_UNKNOWN
         /\ tx'[t].bytes = "null"
         /\ tx'[t].executable = 0 /\ tx'[t].executed = 0 /\ tx'[t].indexed = 0
         /\ t \in DOMAIN unexecuted'
         /\ nodes'[unexecuted'[t]] = UnexecutedTx(t, FALSE, "null")
         /\ NumFired(fired', "onAddTransaction", t) = 1]_vars

\* C16 without the time and height columns
C16_AddNewOtherwise ==
  [][\A t \in Txids :
       (CalledOp("addNewTransaction", t) /\ t \notin DOMAIN tx) =>
         /\ t \in DOMAIN tx'
         /\ tx'[t].bytes = "null"
         /\ tx'[t].executable = 0 /\ tx'[t].executed = 0 /\ tx'[t].indexed = 0
         /\ t \in DOMAIN unexecuted'
         /\ nodes'[unexecuted'[t]] = UnexecutedTx(t, FALSE, "null")
         /\ NumFired(fired', "onAddTransaction", t) = 1]_vars

-----------------------------------------------------------------------------
\* Invariants of the records and of the graph

\* The condition of getUnexecutedStmt on the record of t
UnexecutedRow(rows, t) ==
  /\ t \in DOMAIN rows
  /\ \/ rows[t].executable = 1 /\ rows[t].executed = 0
     \/ rows[t].bytes = "null"

\* C17: after every public mutator, a txid is a key of the unexecuted map
\* if and only if it has a tx record with (executable = 1 and executed = 0)
\* or with no bytes.
C17_MapIsUnexecuted ==
  \A t \in Txids : t \in DOMAIN unexecuted <=> UnexecutedRow(tx, t)

\* C20: in every state of the tables, a tx record without bytes has
\* executable = 0 and executed = 0, also when a transaction is deleted and
\* added again while an execution announced for its earlier incarnation
\* calls back later with storeExecutedTransaction or
\* setTransactionExecutionFailed.
C20_DownloadInvariant ==
  \A t \in DOMAIN tx :
    tx[t].bytes = "null" => tx[t].executable = 0 /\ tx[t].executed = 0

\* The objects of the unexecuted map
MapNodes == {unexecuted[t] : t \in DOMAIN unexecuted}

\* C18: after every public mutator, for all nodes u and n of the unexecuted
\* map, u is in n.upstream if and only if n is in u.downstream.
C18_EdgesSymmetric ==
  \A u \in MapNodes : \A n \in MapNodes :
    u \in Range(nodes[n].upstream) <=> n \in Range(nodes[u].downstream)

\* unindexTransaction has put a new node into the map and linked it under a
\* node of the map
C18_Witness ==
  /\ lastOp.call.op = "unindexTransaction" /\ ~lastOp.threw
  /\ Fired("onUnindexTransaction", lastOp.call.txid)
  /\ lastOp.call.txid \in DOMAIN unexecuted
  /\ \E u \in MapNodes :
       /\ u \in Range(NodeOf(lastOp.call.txid).upstream)
       /\ unexecuted[lastOp.call.txid] \in Range(nodes[u].downstream)

-----------------------------------------------------------------------------
\* Laws

\* C21: for any t that is not in the trust set, with or without a record and
\* with or without unexecuted ancestors, trust(t) followed by untrust(t)
\* leaves the in-memory trust set as it was before trust(t).
C21_TrustUntrust ==
  [][\A t \in Txids \ trustlist :
       CalledOp("trust", t) =>
         LET r == untrust(Cur', t)
         IN ~r.oom => r.trustlist = trustlist]_vars

\* C22: for any t that is not in the ban set, ban(t) followed by unban(t)
\* leaves the trust set and the ban set, in memory and in the rows of the
\* trust and ban tables that are in effect, as they were before ban(t).
C22_BanUnban ==
  [][\A t \in Txids \ banlist :
       CalledOp("ban", t) =>
         LET r == unban(Cur', t)
         IN /\ r.trustlist = trustlist
            /\ r.banlist = banlist
            /\ TrustedRows(r.trustTbl) = TrustedRows(trustTbl)
            /\ r.banTbl = banTbl]_vars

\* ban(t) has just banned an indexed t and cleared it
C22_Witness ==
  /\ lastOp.call.op = "ban" /\ ~lastOp.threw
  /\ lastOp.call.txid \in banlist \cap banTbl
  /\ Fired("onBanTransaction", lastOp.call.txid)
  /\ Fired("onUnindexTransaction", lastOp.call.txid)
  /\ lastOp.call.txid \notin unban(Cur, lastOp.call.txid).banlist

\* The tables and the in-memory state that a call returning r leaves are
\* those of the state v
SameState(r, v) ==
  /\ <<r.tx, r.deps, r.trustTbl, r.banTbl, r.jig, r.berry, r.spends>>
       = <<v.tx, v.deps, v.trustTbl, v.banTbl, v.jig, v.berry, v.spends>>
  /\ <<r.trustlist, r.banlist, r.unexecuted, r.nodes, r.num>>
       = <<v.trustlist, v.banlist, v.unexecuted, v.nodes, v.num>>

\* C23: addNewTransaction(t) for a t that has a record changes no record, no
\* node, edge, flag or counter and fires no event; so a second
\* addNewTransaction(t) leaves the state and the single onAddTransaction(t)
\* of the first.
C23_AddNewIdempotent ==
  [][\A t \in Txids :
       CalledOp("addNewTransaction", t) =>
         /\ t \in DOMAIN tx => SameState(Cur', Cur) /\ fired' = <<>>
         /\ t \notin DOMAIN tx =>
              LET r == addNewTransaction(Cur', t)
              IN /\ SameState(r, Cur') /\ r.fired = <<>>
                 /\ NumFired(fired', "onAddTransaction", t) = 1]_vars

\* addNewTransaction(t) has just returned for a t that had a record
C23_Witness ==
  /\ lastOp.call.op = "addNewTransaction"
  /\ lastOp.call.txid \in DOMAIN tx
  /\ fired = <<>>

-----------------------------------------------------------------------------
\* Late callbacks

\* C24: storeExecutedTransaction(t), setTransactionExecutionFailed(t) and
\* addMissingDeps(t, deps) for a t that is not in the unexecuted map change
\* no table, no node, edge, flag or counter, create no record for a dep and
\* fire no event.
C24_LateCallbackNoOp ==
  [][\A t \in Txids \ DOMAIN unexecuted : \A op \in Answers :
       CalledOp(op, t) => SameState(Cur', Cur) /\ fired' = <<>> /\ ~lastOp'.threw]_vars

\* addMissingDeps has just returned for a transaction that was deleted
\* after it was announced, naming a dep without a record
C24_Witness ==
  /\ lastOp.call.op = "addMissingDeps"
  /\ lastOp.call.txid \notin DOMAIN tx \cup DOMAIN unexecuted
  /\ lastOp.call.deps # <<>> /\ lastOp.call.deps[1] \notin DOMAIN tx
  /\ tx # <<>>
  /\ fired = <<>>

-----------------------------------------------------------------------------
\* Events and store transactions

\* C25: every event callback is invoked after the store transaction of the
\* mutator that caused it has committed, never while a store transaction is
\* open.
C25_EventsAfterCommit ==
  \A i \in 1..Len(fired) : ~fired[i].inside

\* C25 for the callbacks of trust, untrust, ban and unban
C25_ListEventsAfterCommit ==
  \A i \in 1..Len(fired) :
    fired[i].type \in {"onTrustTransaction", "onUntrustTransaction",
                       "onBanTransaction", "onUnbanTransaction"} => ~fired[i].inside

-----------------------------------------------------------------------------
\* Restarts

\* The state of a new Database object on the same file, before its open()
Fresh(s) ==
  [s EXCEPT !.trustlist = {}, !.banlist = {}, !.unexecuted = <<>>, !.nodes = <<>>,
            !.num = 0]

\* C26: trust edits survive restarts: for a txid t of the default trust
\* seed, with or without a tx record, t is not in the trust set after
\* untrust(t), close() and open(); and a txid added with trust(t) is in the
\* trust set after close() and open().
C26_TrustSurvivesRestart ==
  [][\A t \in Txids :
       /\ (t \in DEFAULT_TRUSTLIST /\ t \in trustlist /\ CalledOp("untrust", t)) =>
            LET r == open(close(Cur'))
            IN ~r.oom => t \notin r.trustlist
       /\ (t \notin trustlist /\ CalledOp("trust", t)) =>
            LET r == open(close(Cur'))
            IN ~r.oom => t \in r.trustlist]_vars

\* C26 for the transactions that have a record when untrust is called, with
\* the restart made by a new Database object
C26_RecordedTrustSurvivesRestart ==
  [][\A t \in Txids :
       /\ (t \in DEFAULT_TRUSTLIST \cap trustlist \cap DOMAIN tx /\ CalledOp("untrust", t)) =>
            LET r == open(Fresh(Cur'))
            IN ~r.oom => t \notin r.trustlist
       /\ (t \notin trustlist /\ CalledOp("trust", t)) =>
            LET r == open(Fresh(Cur'))
            IN ~r.oom => t \in r.trustlist]_vars

-----------------------------------------------------------------------------
\* Progress

\* Only the downloader and the executor make calls from now on
Quiet == steps >= MaxLiveSteps

\* Every transaction that has a record has been downloaded and parsed
AllDownloaded == \A t \in DOMAIN tx : tx[t].bytes # "null"

\* The record of t is that of a downloaded, executable transaction that has
\* not been executed
UnexecutedRecord(t) ==
  /\ t \in DOMAIN tx
  /\ tx[t].bytes # "null" /\ tx[t].executable = 1 /\ tx[t].executed = 0

\* t is trusted or free of code, and not banned
Clean(t) == (tx[t].has_code = 0 \/ t \in trustlist) /\ t \notin banlist

\* The txids reachable from R through the rows of the deps table E, upstream
RECURSIVE UpDeps(_, _)
UpDeps(E, R) ==
  LET R1 == R \cup {e[1] : e \in {f \in E : f[2] \in R}}
  IN IF R1 = R THEN R ELSE UpDeps(E, R1)

\* t is unexecuted, trusted or code-free and unbanned, and each of its
\* transitive dependencies is trusted or code-free and unbanned too, and is
\* settled or unexecuted
Executable(t) ==
  /\ UnexecutedRecord(t) /\ Clean(t)
  /\ \A d \in UpDeps(deps, {t}) \ {t} :
       /\ d \in DOMAIN tx /\ Clean(d)
       /\ Settled(Cur, d) \/ UnexecutedRecord(d)

\* C27: no perpetually stuck node: once every added transaction has been
\* downloaded and parsed, no further trust, untrust, ban, unban, unindex or
\* delete occurs, and the executor answers each onReadyToExecute(t) with
\* storeExecutedTransaction(t), eventually no unexecuted transaction is left
\* that is trusted or code-free, unbanned, and has only such dependencies:
\* each of them has been announced and indexed.
C27_NoStuckNode ==
  (Quiet /\ AllDownloaded) ~> (\A t \in Txids : ~Executable(t))

-----------------------------------------------------------------------------
\* Edges

\* The in-memory edge between the map's nodes of u and d
EdgeInMemory(u, d) ==
  /\ u \in DOMAIN unexecuted /\ d \in DOMAIN unexecuted
  /\ unexecuted[u] \in Range(NodeOf(d).upstream)
  /\ unexecuted[d] \in Range(NodeOf(u).downstream)

\* The object n is the node the map holds for its txid
Current(n) ==
  /\ nodes[n].txid \in DOMAIN unexecuted
  /\ unexecuted[nodes[n].txid] = n

\* C28, first part: after every public mutator, for every deps row
\* (up = u, down = d), the in-memory edge between u and d exists if and only
\* if u and d are both keys of the unexecuted map.
C28_EdgesOfDepsRows ==
  \A e \in deps :
    EdgeInMemory(e[1], e[2]) <=> (e[1] \in DOMAIN unexecuted /\ e[2] \in DOMAIN unexecuted)

\* C28, second part: no upstream or downstream set of a node in the map
\* contains an object that is not the map's current node for its txid.
C28_NoStaleNeighbours ==
  \A t \in DOMAIN unexecuted :
    \A n \in Range(NodeOf(t).upstream) \cup Range(NodeOf(t).downstream) : Current(n)

\* C28: edge materialisation, both parts
C28_EdgeMaterialisation == C28_EdgesOfDepsRows /\ C28_NoStaleNeighbours

-----------------------------------------------------------------------------
\* Non-cascading failure

\* The objects in the downstream set of the map's node of a that are the
\* map's nodes of other transactions
DownstreamNeighbours(a) ==
  {m \in Range(NodeOf(a).downstream) : Current(m) /\ nodes[m].txid # a}

\* C29: setTransactionExecutionFailed(a), for a in the map whose stored bytes
\* do not classify as an executable transaction or are absent, fails only a:
\* no other record changes, every downstream neighbour stays in the map
\* without a in its upstream set, and each downstream neighbour that then is
\* flagged with an empty upstream set receives onReadyToExecute.
C29_NonCascadingFailure ==
  [][\A a \in DOMAIN unexecuted :
       (CalledOp("setTransactionExecutionFailed", a) /\ ~StillExecutable(Cur, a)) =>
         /\ a \notin DOMAIN unexecuted'
         /\ a \in DOMAIN tx => FailedRow(tx', a)
         /\ \A d \in DOMAIN tx \ {a} : d \in DOMAIN tx' /\ tx'[d] = tx[d]
         /\ DOMAIN tx' = DOMAIN tx
         /\ \A m \in DownstreamNeighbours(a) :
              /\ nodes[m].txid \in DOMAIN unexecuted'
              /\ unexecuted'[nodes[m].txid] = m
              /\ unexecuted[a] \notin Range(nodes'[m].upstream)
              /\ (nodes'[m].upstream = <<>> /\ nodes'[m].queuedForExecution) =>
                   NumFired(fired', "onReadyToExecute", nodes[m].txid) >= 1]_vars

\* setTransactionExecutionFailed(a) has just failed an a whose record has no
\* executable bytes (the store of its bytes was rolled back) and announced a
\* downstream neighbour that it left flagged without upstream
C29_Witness ==
  /\ lastOp.call.op = "setTransactionExecutionFailed"
  /\ FailedRow(tx, lastOp.call.txid)
  /\ tx[lastOp.call.txid].bytes # "run"
  /\ \E d \in DOMAIN unexecuted :
       /\ <<lastOp.call.txid, d>> \in deps
       /\ NodeOf(d).upstream = <<>> /\ NodeOf(d).queuedForExecution
       /\ NumFired(fired, "onReadyToExecute", d) = 1

-----------------------------------------------------------------------------
\* Aborted calls

\* C30: abort consistency: when an exception is raised inside the store
\* transaction of a mutator, every write of the call to the tables is rolled
\* back, and the unexecuted map, the adjacency sets, the flags, the counter,
\* the trust set and the ban set are as they were before the call.
C30_AbortConsistency ==
  [][(Called /\ lastOp'.threw) =>
       /\ <<tx', deps', trustTbl', banTbl', jig', berry', spends'>>
            = <<tx, deps, trustTbl, banTbl, jig, berry, spends>>
       /\ <<unexecuted', nodes', numQueuedForExecution', trustlist', banlist'>>
            = <<unexecuted, nodes, numQueuedForExecution, trustlist, banlist>>]_vars

\* C30 for the tables alone: the writes of a call that throws are rolled back
C30_AbortRollsBackTables ==
  [][(Called /\ lastOp'.threw) =>
       <<tx', deps', trustTbl', banTbl', jig', berry', spends'>>
         = <<tx, deps, trustTbl, banTbl, jig, berry, spends>>]_vars

-----------------------------------------------------------------------------
\* unban

\* C31: unban(t) for a banned t removes t from the ban set and from the ban
\* table and fires onUnbanTransaction(t) once; if t is still in the map its
\* flag ends equal to ready(t), a change of the flag reaches the downstream
\* nodes, which end with their flags equal to ready too, and if t becomes
\* flagged with an empty upstream set onReadyToExecute(t) fires.  unban(t)
\* for a t that is not banned changes nothing and fires nothing.
C31_Unban ==
  [][\A t \in Txids :
       CalledOp("unban", t) =>
         /\ t \notin banlist => (SameState(Cur', Cur) /\ fired' = <<>>)
         /\ t \in banlist =>
              /\ t \notin banlist' /\ t \notin banTbl'
              /\ NumFired(fired', "onUnbanTransaction", t) = 1
              /\ t \in DOMAIN unexecuted =>
                   LET n == unexecuted[t]
                       changed == nodes'[n].queuedForExecution # nodes[n].queuedForExecution
                   IN /\ t \in DOMAIN unexecuted' /\ unexecuted'[t] = n
                      /\ nodes'[n].queuedForExecution = Ready(Cur', n)
                      /\ changed =>
                           \A m \in Range(nodes[n].downstream) :
                             Current(m) => nodes'[m].queuedForExecution = Ready(Cur', m)
                      /\ (changed /\ nodes'[n].queuedForExecution /\ nodes'[n].upstream = <<>>) =>
                           NumFired(fired', "onReadyToExecute", t) = 1]_vars

\* unban(t) has just flagged and announced the root t of the map and
\* flagged a node downstream of it
C31_Witness ==
  /\ lastOp.call.op = "unban"
  /\ Fired("onUnbanTransaction", lastOp.call.txid)
  /\ Fired("onReadyToExecute", lastOp.call.txid)
  /\ lastOp.call.txid \in DOMAIN unexecuted
  /\ \E m \in Range(NodeOf(lastOp.call.txid).downstream) :
       Current(m) /\ nodes[m].queuedForExecution

-----------------------------------------------------------------------------
\* The propagator

\* Some node of the map lies on a cycle of upstream edges
OnCycle(t) ==
  \E m \in Range(NodeOf(t).upstream) : unexecuted[t] \in UpReach(nodes, {m})

-----------------------------------------------------------------------------
\* Cycles

\* C33: while a node of the map lies on a cycle of in-memory upstream edges,
\* its flag is false and onReadyToExecute is not fired for it, and the
\* operation that has just returned has returned normally.
C33_CyclesStayUnready ==
  \A t \in DOMAIN unexecuted :
    OnCycle(t) =>
      /\ ~NodeOf(t).queuedForExecution
      /\ ~Fired("onReadyToExecute", t)
      /\ ~lastOp.threw /\ ~diverged

-----------------------------------------------------------------------------
\* The unspent index

\* Origins of classes and locks, and scripthashes, that a caller asks for
ClassOrigins == {"A", "B", "C"}
LockOrigins == {"L", "M"}
Scripthashes == {"H", "G", "F"}

\* The locations that have a spends row with spend_txid null and a jig row
UnspentJigs ==
  {l \in DOMAIN spends : spends[l] = SqlNull /\ l \in DOMAIN jig}

\* C34: in every reachable state getAllUnspent() returns exactly the
\* locations that have a spends row with spend_txid null and a jig row,
\* getNumUnspent() is the size of that set, and each filtered variant returns
\* exactly the locations of the set whose jig annotations equal the given
\* values.
C34_UnspentIndex ==
  /\ getAllUnspent(Cur) = UnspentJigs
  /\ getNumUnspent(Cur) = Cardinality(UnspentJigs)
  /\ \A c \in ClassOrigins : \A k \in LockOrigins : \A h \in Scripthashes :
       /\ getAllUnspentByClassOrigin(Cur, c) = {l \in UnspentJigs : jig[l].class = c}
       /\ getAllUnspentByLockOrigin(Cur, k) = {l \in UnspentJigs : jig[l].lock = k}
       /\ getAllUnspentByScripthash(Cur, h) = {l \in UnspentJigs : jig[l].scripthash = h}
       /\ getAllUnspentByClassOriginAndLockOrigin(Cur, c, k)
            = {l \in UnspentJigs : jig[l].class = c /\ jig[l].lock = k}
       /\ getAllUnspentByClassOriginAndScripthash(Cur, c, h)
            = {l \in UnspentJigs : jig[l].class = c /\ jig[l].scripthash = h}
       /\ getAllUnspentByLockOriginAndScripthash(Cur, k, h)
            = {l \in UnspentJigs : jig[l].lock = k /\ jig[l].scripthash = h}
       /\ getAllUnspentByClassOriginAndLockOriginAndScripthash(Cur, c, k, h)
            = {l \in UnspentJigs : jig[l].class = c /\ jig[l].lock = k /\ jig[l].scripthash = h}

\* The jig of 3 is spent by 2 and the jig of 2 (of class A, without lock) is
\* the one unspent jig
C34_Witness ==
  /\ Location(3, 1) \in DOMAIN jig \cap DOMAIN spends /\ spends[Location(3, 1)] = 2
  /\ Location(2, 1) \in UnspentJigs /\ jig[Location(2, 1)].lock = "null"
  /\ getNumUnspent(Cur) = 1
  /\ getAllUnspentByClassOrigin(Cur, "A") = {Location(2, 1)}
  /\ getAllUnspentByClassOriginAndLockOrigin(Cur, "A", "L") = {}

-----------------------------------------------------------------------------
\* Who is announced

\* In the state v that the callback sees, t is a key of the unexecuted map
\* whose node is downloaded
DownloadedKey(v, t) ==
  t \in DOMAIN v.unexecuted /\ v.nodes[v.unexecuted[t]].downloaded

\* In the state v, the record of t has bytes, executable = 1 and executed = 0,
\* and is not indexed
AnnouncedRow(v, t) ==
  /\ t \in DOMAIN v.tx
  /\ v.tx[t].bytes # "null" /\ v.tx[t].executable = 1
  /\ v.tx[t].executed = 0 /\ v.tx[t].indexed = 0

\* C35: onReadyToExecute(t) is fired only for a t that is, at that moment, a
\* key of the unexecuted map with downloaded = true, whose record has bytes,
\* executable = 1 and executed = 0; never for a transaction that is marked
\* failed, indexed or deleted.
C35_OnlyUnexecutedAnnounced ==
  \A i \in ReadyFired :
    /\ DownloadedKey(fired[i].at, fired[i].txid)
    /\ AnnouncedRow(fired[i].at, fired[i].txid)

-----------------------------------------------------------------------------
\* Restart equivalence

\* The in-memory state of s: the keys of the unexecuted map, for each key the
\* downloaded flag, hasCode (unknown as false), the txids of the upstream and
\* of the downstream set and the queuedForExecution flag, then the counter,
\* the trust set and the ban set
Memory(s) ==
  [node |-> [t \in DOMAIN s.unexecuted |->
               LET n == s.nodes[s.unexecuted[t]]
               IN [downloaded |-> n.downloaded,
                   hasCode |-> Truthy(n.hasCode),
                   upstream |-> {s.nodes[m].txid : m \in Range(n.upstream)},
                   downstream |-> {s.nodes[m].txid : m \in Range(n.downstream)},
                   queuedForExecution |-> n.queuedForExecution]],
   num |-> s.num, trustlist |-> s.trustlist, banlist |-> s.banlist]

\* C36: at every point between public operations, close() followed by open()
\* rebuilds an in-memory state (map keys, downloaded, hasCode, upstream and
\* downstream sets, flags, counter, trust set and ban set) equal to the one
\* held just before close().
C36_RestartEquivalence ==
  lastOp = Idle =>
    LET r == open(Fresh(close(Cur)))
    IN ~r.oom => Memory(r) = Memory(Cur)

-----------------------------------------------------------------------------
\* Bans

\* C37: a banned transaction is not indexed: in every reachable state, t in
\* the ban set implies that the record of t has indexed = 0, also when
\* ban(t) is issued after onReadyToExecute(t) and before the matching
\* storeExecutedTransaction(t).
C37_BannedNotIndexed ==
  \A t \in banlist : t \in DOMAIN tx => tx[t].indexed = 0

-----------------------------------------------------------------------------
\* Spends.  A specification of the crawler and the downloader on the line of
\* three transactions, where a transaction is stored as executable or as
\* non-executable with the same inputs and outputs.

\* The value of `row && row[0]` when getSpendStmt finds no row
Undefined == -3

\* getSpend(location): SELECT spend_txid FROM spends WHERE location = ?
getSpend(s, location) ==
  IF location \in DOMAIN s.spends THEN s.spends[location] ELSE Undefined

\* Number of calls in one behaviour of the crawler and the downloader
MaxSpendSteps == 7

SpendAddNew ==
  \E t \in Txids :
    /\ lastOp = Idle /\ steps < MaxSpendSteps
    /\ t \notin DOMAIN tx
    /\ Commit(addNewTransaction(Cur, t), Op("addNewTransaction", t, "null", FALSE, <<>>))

SpendParseExecutable ==
  \E t \in Txids :
    /\ lastOp = Idle /\ steps < MaxSpendSteps
    /\ t \in DOMAIN unexecuted /\ ~NodeOf(t).downloaded
    /\ Commit(storeParsedExecutableTransaction(Cur, t, "run", LineHasCode(t), LineDeps(t),
                                               Inputs(LineDeps(t)), Outputs(t)),
              Op("storeParsedExecutableTransaction", t, "run", LineHasCode(t), LineDeps(t)))

SpendParseNonExecutable ==
  \E t \in Txids :
    /\ lastOp = Idle /\ steps < MaxSpendSteps
    /\ t \in DOMAIN unexecuted /\ ~NodeOf(t).downloaded
    /\ Commit(storeParsedNonExecutableTransaction(Cur, t, "raw", Inputs(LineDeps(t)), Outputs(t)),
              Op("storeParsedNonExecutableTransaction", t, "raw", FALSE, <<>>))

SpendDelete ==
  \E t \in Txids :
    /\ lastOp = Idle /\ steps < MaxSpendSteps
    /\ t \in DOMAIN tx
    /\ Commit(deleteTransaction(Cur, t), Op("deleteTransaction", t, "null", FALSE, <<>>))

SpendNext ==
  \/ Return
  \/ SpendAddNew
  \/ SpendParseExecutable
  \/ SpendParseNonExecutable
  \/ SpendDelete

SpecSpend == Init /\ [][SpendNext]_vars

\* The record of t has the bytes of a stored transaction
Stored(rows, t) == t \in DOMAIN rows /\ rows[t].bytes # "null"

\* C38, first part: for a location L that is an output of p and an input of
\* s, once both p and s have been stored by
\* storeParsedNonExecutableTransaction or storeParsedExecutableTransaction,
\* in either order, getSpend(L) = s.
C38_SpendOfStored ==
  \A s \in Txids : \A p \in Range(LineDeps(s)) :
    (Stored(tx, p) /\ Stored(tx, s)) => getSpend(Cur, Location(p, 1)) = s

\* C38, second part: after deleteTransaction(s), with p retained,
\* getSpend(L) is null.
C38_DeleteUnspends ==
  [][\A s \in Txids : \A p \in Range(LineDeps(s)) :
       (/\ Stored(tx, p) /\ Stored(tx, s)
        /\ CalledOp("deleteTransaction", s) /\ p \in DOMAIN tx') =>
           getSpend(Cur', Location(p, 1)) = SqlNull]_vars

-----------------------------------------------------------------------------
\* Heights

\* The stored height is a confirmed one: neither UNKNOWN nor MEMPOOL
Confirmed(rows, t) == rows[t].height \notin {HEIGHT_UNKNOWN, HEIGHT_MEMPOOL}

\* C39: confirmed heights are sticky: setTransactionHeight(t, h) changes the
\* stored height of t only when the current height is UNKNOWN or MEMPOOL and
\* otherwise leaves the record unchanged; a height that is neither is
\* changed only by unconfirmTransaction(t), which sets it to MEMPOOL, or by
\* deleting the record.
C39_ConfirmedHeightsSticky ==
  [][\A t \in DOMAIN tx :
       /\ CalledOp("setTransactionHeight", t) =>
            /\ Confirmed(tx, t) => tx' = tx
            /\ ~Confirmed(tx, t) =>
                 tx' = [tx EXCEPT ![t] = [tx[t] EXCEPT !.height = lastOp'.call.height]]
       /\ (Confirmed(tx, t) /\ t \in DOMAIN tx' /\ tx'[t].height # tx[t].height) =>
            /\ CalledOp("unconfirmTransaction", t)
            /\ tx'[t].height = HEIGHT_MEMPOOL
       /\ (Confirmed(tx, t) /\ t \notin DOMAIN tx') =>
            lastOp'.call.op = "deleteTransaction"]_vars

\* setTransactionHeight(t, h) has returned on a record whose height was set
\* to another block height after an unconfirmTransaction(t)
C39_Witness ==
  /\ lastOp.call.op = "setTransactionHeight"
  /\ lastOp.call.txid \in DOMAIN tx
  /\ tx[lastOp.call.txid].height \in Heights \ {lastOp.call.height}

TypeOK ==
  /\ DOMAIN tx \subseteq Txids
  /\ DOMAIN unexecuted \subseteq Txids
  /\ DOMAIN nodes \subseteq NodeIds
  /\ \A t \in DOMAIN unexecuted : unexecuted[t] \in DOMAIN nodes /\ nodes[unexecuted[t]].txid = t
  /\ ~diverged

====
